---- MODULE Spec2Model ----
(***************************************************************************)
(* A model of weather.py: the get_weather tool, which chains two geocoding *)
(* requests, a points lookup, a forecast request and a second points       *)
(* lookup, and renders the first forecast period as text.                  *)
(*                                                                         *)
(* Values.  A text is the sequence of its Unicode code points.  A Python   *)
(* value is a record tagged by the name of its type:                       *)
(*   [type |-> "NoneType"], [type |-> "bool", b |-> ...],                  *)
(*   [type |-> "int", neg |-> ..., digits |-> <<decimal digits>>],         *)
(*   [type |-> "float", ...] (see Finite below),                           *)
(*   [type |-> "str", s |-> <<code points>>],                              *)
(*   [type |-> "list" | "tuple", items |-> <<values>>],                    *)
(*   [type |-> "dict", items |-> << <<key text, value>>, ... >>], the      *)
(*   members in insertion order.                                           *)
(* A raised exception is [type |-> "exception", class |-> ..., msg |-> the *)
(* text of str(e)].  An upstream answer is [status |-> "ok", body |-> a    *)
(* JSON value], [status |-> "network_error" | "http_error" | "malformed"], *)
(* or [status |-> "cancelled"]: the host cancelled the invocation while it *)
(* waited for the answer.                                                  *)
(***************************************************************************)
EXTENDS Integers, Sequences, FiniteSets, TLC

VARIABLES pc, city, requests, answers, points_url, url_coordinates,
          coordinates, grid_info, forecast_url, periods, current, result

vars == <<pc, city, requests, answers, points_url, url_coordinates,
          coordinates, grid_info, forecast_url, periods, current, result>>

(* ------------------------------ bounds -------------------------------- *)

\* The longest forecast period sequence an upstream response carries.
MaxPeriods == 2

(* ------------------------------- texts -------------------------------- *)

\* The printable ASCII characters a string of this module can hold, in
\* code point order from the space (32) on; the grave accent (96), which
\* no text below needs, holds its place as the empty string.
Printable ==
  <<" ", "!", "\"", "#", "$", "%", "&", "'", "(", ")", "*", "+", ",", "-", ".", "/",
    "0", "1", "2", "3", "4", "5", "6", "7", "8", "9", ":", ";", "<", "=", ">", "?",
    "@", "A", "B", "C", "D", "E", "F", "G", "H", "I", "J", "K", "L", "M", "N", "O",
    "P", "Q", "R", "S", "T", "U", "V", "W", "X", "Y", "Z", "[", "\\", "]", "^", "_",
    "", "a", "b", "c", "d", "e", "f", "g", "h", "i", "j", "k", "l", "m", "n", "o",
    "p", "q", "r", "s", "t", "u", "v", "w", "x", "y", "z", "{", "|", "}", "~">>

\* ord(c) of a character written in this module.
Ord(c) ==
  IF c = "\n" THEN 10
  ELSE IF c = "\t" THEN 9
  ELSE 31 + (CHOOSE i \in 1..Len(Printable) : Printable[i] = c)

\* The text (code points) a string of this module writes.
RECURSIVE Text(_)
Text(s) ==
  IF Len(s) = 0 THEN <<>>
  ELSE IF Len(s) = 1 THEN <<Ord(s)>>
  ELSE Text(SubSeq(s, 1, Len(s) \div 2))
         \o Text(SubSeq(s, Len(s) \div 2 + 1, Len(s)))

EmptyText == <<>>

\* The concatenation of a sequence of texts.
RECURSIVE Concat(_)
Concat(ts) ==
  IF Len(ts) = 0 THEN <<>>
  ELSE IF Len(ts) = 1 THEN ts[1]
  ELSE Concat(SubSeq(ts, 1, Len(ts) \div 2))
         \o Concat(SubSeq(ts, Len(ts) \div 2 + 1, Len(ts)))

\* sep.join(ts)
Join(sep, ts) ==
  Concat([i \in 1..(2 * Len(ts) - 1) |->
            IF i % 2 = 1 THEN ts[(i + 1) \div 2] ELSE sep])

\* A function of 1..n as the sequence of its values.
AsSeq(f) == f \o <<>>

\* n copies of the element x
Repeat(x, n) == AsSeq([i \in 1..n |-> x])

\* s.startswith(prefix)
StartsWith(s, prefix) ==
  /\ Len(prefix) <= Len(s)
  /\ \A i \in 1..Len(prefix) : s[i] = prefix[i]

\* The first position of s that holds an element of cs, Len(s) + 1 if none.
Find(s, cs) ==
  CHOOSE i \in 1..(Len(s) + 1) :
    /\ i = Len(s) + 1 \/ s[i] \in cs
    /\ \A j \in 1..(i - 1) : s[j] \notin cs

Contains(s, cs) == \E i \in 1..Len(s) : s[i] \in cs

\* The text before and the text after the first element of cs in s.
Before(s, cs) == SubSeq(s, 1, Find(s, cs) - 1)
After(s, cs) == SubSeq(s, Find(s, cs) + 1, Len(s))

\* s without its leading and trailing elements of cs.
StripOf(s, cs) ==
  IF \A i \in 1..Len(s) : s[i] \in cs THEN <<>>
  ELSE LET first == CHOOSE i \in 1..Len(s) :
                      s[i] \notin cs /\ \A j \in 1..(i - 1) : s[j] \in cs
           last == CHOOSE i \in 1..Len(s) :
                     s[i] \notin cs /\ \A j \in (i + 1)..Len(s) : s[j] \in cs
       IN SubSeq(s, first, last)

\* s without the elements of cs.
Without(s, cs) == Concat([i \in 1..Len(s) |-> IF s[i] \in cs THEN <<>> ELSE <<s[i]>>])

\* The code points str.isspace() holds of (Unicode 14): str.strip() drops
\* them from both ends of a text.
UnicodeSpaces ==
  {9, 10, 11, 12, 13, 28, 29, 30, 31, 32, 133, 160, 5760, 8192, 8193,
   8194, 8195, 8196, 8197, 8198, 8199, 8200, 8201, 8202, 8232, 8233,
   8239, 8287, 12288}

\* The white space of the C locale, which float() drops from both ends of
\* the text it reads.
CSpaces == {9, 10, 11, 12, 13, 32}

\* str.strip()
Strip(s) == StripOf(s, UnicodeSpaces)

\* The code points of the digit zero of every decimal digit system of
\* Unicode 14; the nine that follow each are its digits one to nine.
DecimalZeros ==
  {48, 1632, 1776, 1984, 2406, 2534, 2662, 2790, 2918, 3046, 3174, 3302,
   3430, 3558, 3664, 3792, 3872, 4160, 4240, 6112, 6160, 6470, 6608,
   6784, 6800, 6992, 7088, 7232, 7248, 42528, 43216, 43264, 43472, 43504,
   43600, 44016, 65296, 66720, 68912, 69734, 69872, 69942, 70096, 70384,
   70736, 70864, 71248, 71360, 71472, 71904, 72016, 72784, 73040, 73120,
   92768, 92864, 93008, 120782, 120792, 120802, 120812, 120822, 123200,
   123632, 125264, 130032}

IsDecimal(c) == \E z \in DecimalZeros : z <= c /\ c <= z + 9

\* The value of a decimal digit.
DecimalValue(c) == c - (CHOOSE z \in DecimalZeros : z <= c /\ c <= z + 9)

\* The ranges of code points above 127 that str.isprintable() does not hold
\* of (Unicode 14): repr() writes them as escapes.
NonPrintableRanges ==
  { <<128, 160>>, <<173, 173>>, <<888, 889>>, <<896, 899>>, <<907, 907>>, <<909, 909>>,
    <<930, 930>>, <<1328, 1328>>, <<1367, 1368>>, <<1419, 1420>>, <<1424, 1424>>, <<1480, 1487>>,
    <<1515, 1518>>, <<1525, 1541>>, <<1564, 1564>>, <<1757, 1757>>, <<1806, 1807>>, <<1867, 1868>>,
    <<1970, 1983>>, <<2043, 2044>>, <<2094, 2095>>, <<2111, 2111>>, <<2140, 2141>>, <<2143, 2143>>,
    <<2155, 2159>>, <<2191, 2199>>, <<2274, 2274>>, <<2436, 2436>>, <<2445, 2446>>, <<2449, 2450>>,
    <<2473, 2473>>, <<2481, 2481>>, <<2483, 2485>>, <<2490, 2491>>, <<2501, 2502>>, <<2505, 2506>>,
    <<2511, 2518>>, <<2520, 2523>>, <<2526, 2526>>, <<2532, 2533>>, <<2559, 2560>>, <<2564, 2564>>,
    <<2571, 2574>>, <<2577, 2578>>, <<2601, 2601>>, <<2609, 2609>>, <<2612, 2612>>, <<2615, 2615>>,
    <<2618, 2619>>, <<2621, 2621>>, <<2627, 2630>>, <<2633, 2634>>, <<2638, 2640>>, <<2642, 2648>>,
    <<2653, 2653>>, <<2655, 2661>>, <<2679, 2688>>, <<2692, 2692>>, <<2702, 2702>>, <<2706, 2706>>,
    <<2729, 2729>>, <<2737, 2737>>, <<2740, 2740>>, <<2746, 2747>>, <<2758, 2758>>, <<2762, 2762>>,
    <<2766, 2767>>, <<2769, 2783>>, <<2788, 2789>>, <<2802, 2808>>, <<2816, 2816>>, <<2820, 2820>>,
    <<2829, 2830>>, <<2833, 2834>>, <<2857, 2857>>, <<2865, 2865>>, <<2868, 2868>>, <<2874, 2875>>,
    <<2885, 2886>>, <<2889, 2890>>, <<2894, 2900>>, <<2904, 2907>>, <<2910, 2910>>, <<2916, 2917>>,
    <<2936, 2945>>, <<2948, 2948>>, <<2955, 2957>>, <<2961, 2961>>, <<2966, 2968>>, <<2971, 2971>>,
    <<2973, 2973>>, <<2976, 2978>>, <<2981, 2983>>, <<2987, 2989>>, <<3002, 3005>>, <<3011, 3013>>,
    <<3017, 3017>>, <<3022, 3023>>, <<3025, 3030>>, <<3032, 3045>>, <<3067, 3071>>, <<3085, 3085>>,
    <<3089, 3089>>, <<3113, 3113>>, <<3130, 3131>>, <<3141, 3141>>, <<3145, 3145>>, <<3150, 3156>>,
    <<3159, 3159>>, <<3163, 3164>>, <<3166, 3167>>, <<3172, 3173>>, <<3184, 3190>>, <<3213, 3213>>,
    <<3217, 3217>>, <<3241, 3241>>, <<3252, 3252>>, <<3258, 3259>>, <<3269, 3269>>, <<3273, 3273>>,
    <<3278, 3284>>, <<3287, 3292>>, <<3295, 3295>>, <<3300, 3301>>, <<3312, 3312>>, <<3315, 3327>>,
    <<3341, 3341>>, <<3345, 3345>>, <<3397, 3397>>, <<3401, 3401>>, <<3408, 3411>>, <<3428, 3429>>,
    <<3456, 3456>>, <<3460, 3460>>, <<3479, 3481>>, <<3506, 3506>>, <<3516, 3516>>, <<3518, 3519>>,
    <<3527, 3529>>, <<3531, 3534>>, <<3541, 3541>>, <<3543, 3543>>, <<3552, 3557>>, <<3568, 3569>>,
    <<3573, 3584>>, <<3643, 3646>>, <<3676, 3712>>, <<3715, 3715>>, <<3717, 3717>>, <<3723, 3723>>,
    <<3748, 3748>>, <<3750, 3750>>, <<3774, 3775>>, <<3781, 3781>>, <<3783, 3783>>, <<3790, 3791>>,
    <<3802, 3803>>, <<3808, 3839>>, <<3912, 3912>>, <<3949, 3952>>, <<3992, 3992>>, <<4029, 4029>>,
    <<4045, 4045>>, <<4059, 4095>>, <<4294, 4294>>, <<4296, 4300>>, <<4302, 4303>>, <<4681, 4681>>,
    <<4686, 4687>>, <<4695, 4695>>, <<4697, 4697>>, <<4702, 4703>>, <<4745, 4745>>, <<4750, 4751>>,
    <<4785, 4785>>, <<4790, 4791>>, <<4799, 4799>>, <<4801, 4801>>, <<4806, 4807>>, <<4823, 4823>>,
    <<4881, 4881>>, <<4886, 4887>>, <<4955, 4956>>, <<4989, 4991>>, <<5018, 5023>>, <<5110, 5111>>,
    <<5118, 5119>>, <<5760, 5760>>, <<5789, 5791>>, <<5881, 5887>>, <<5910, 5918>>, <<5943, 5951>>,
    <<5972, 5983>>, <<5997, 5997>>, <<6001, 6001>>, <<6004, 6015>>, <<6110, 6111>>, <<6122, 6127>>,
    <<6138, 6143>>, <<6158, 6158>>, <<6170, 6175>>, <<6265, 6271>>, <<6315, 6319>>, <<6390, 6399>>,
    <<6431, 6431>>, <<6444, 6447>>, <<6460, 6463>>, <<6465, 6467>>, <<6510, 6511>>, <<6517, 6527>>,
    <<6572, 6575>>, <<6602, 6607>>, <<6619, 6621>>, <<6684, 6685>>, <<6751, 6751>>, <<6781, 6782>>,
    <<6794, 6799>>, <<6810, 6815>>, <<6830, 6831>>, <<6863, 6911>>, <<6989, 6991>>, <<7039, 7039>>,
    <<7156, 7163>>, <<7224, 7226>>, <<7242, 7244>>, <<7305, 7311>>, <<7355, 7356>>, <<7368, 7375>>,
    <<7419, 7423>>, <<7958, 7959>>, <<7966, 7967>>, <<8006, 8007>>, <<8014, 8015>>, <<8024, 8024>>,
    <<8026, 8026>>, <<8028, 8028>>, <<8030, 8030>>, <<8062, 8063>>, <<8117, 8117>>, <<8133, 8133>>,
    <<8148, 8149>>, <<8156, 8156>>, <<8176, 8177>>, <<8181, 8181>>, <<8191, 8207>>, <<8232, 8239>>,
    <<8287, 8303>>, <<8306, 8307>>, <<8335, 8335>>, <<8349, 8351>>, <<8385, 8399>>, <<8433, 8447>>,
    <<8588, 8591>>, <<9255, 9279>>, <<9291, 9311>>, <<11124, 11125>>, <<11158, 11158>>, <<11508, 11512>>,
    <<11558, 11558>>, <<11560, 11564>>, <<11566, 11567>>, <<11624, 11630>>, <<11633, 11646>>, <<11671, 11679>>,
    <<11687, 11687>>, <<11695, 11695>>, <<11703, 11703>>, <<11711, 11711>>, <<11719, 11719>>, <<11727, 11727>>,
    <<11735, 11735>>, <<11743, 11743>>, <<11870, 11903>>, <<11930, 11930>>, <<12020, 12031>>, <<12246, 12271>>,
    <<12284, 12288>>, <<12352, 12352>>, <<12439, 12440>>, <<12544, 12548>>, <<12592, 12592>>, <<12687, 12687>>,
    <<12772, 12783>>, <<12831, 12831>>, <<42125, 42127>>, <<42183, 42191>>, <<42540, 42559>>, <<42744, 42751>>,
    <<42955, 42959>>, <<42962, 42962>>, <<42964, 42964>>, <<42970, 42993>>, <<43053, 43055>>, <<43066, 43071>>,
    <<43128, 43135>>, <<43206, 43213>>, <<43226, 43231>>, <<43348, 43358>>, <<43389, 43391>>, <<43470, 43470>>,
    <<43482, 43485>>, <<43519, 43519>>, <<43575, 43583>>, <<43598, 43599>>, <<43610, 43611>>, <<43715, 43738>>,
    <<43767, 43776>>, <<43783, 43784>>, <<43791, 43792>>, <<43799, 43807>>, <<43815, 43815>>, <<43823, 43823>>,
    <<43884, 43887>>, <<44014, 44015>>, <<44026, 44031>>, <<55204, 55215>>, <<55239, 55242>>, <<55292, 63743>>,
    <<64110, 64111>>, <<64218, 64255>>, <<64263, 64274>>, <<64280, 64284>>, <<64311, 64311>>, <<64317, 64317>>,
    <<64319, 64319>>, <<64322, 64322>>, <<64325, 64325>>, <<64451, 64466>>, <<64912, 64913>>, <<64968, 64974>>,
    <<64976, 65007>>, <<65050, 65055>>, <<65107, 65107>>, <<65127, 65127>>, <<65132, 65135>>, <<65141, 65141>>,
    <<65277, 65280>>, <<65471, 65473>>, <<65480, 65481>>, <<65488, 65489>>, <<65496, 65497>>, <<65501, 65503>>,
    <<65511, 65511>>, <<65519, 65531>>, <<65534, 65535>>, <<65548, 65548>>, <<65575, 65575>>, <<65595, 65595>>,
    <<65598, 65598>>, <<65614, 65615>>, <<65630, 65663>>, <<65787, 65791>>, <<65795, 65798>>, <<65844, 65846>>,
    <<65935, 65935>>, <<65949, 65951>>, <<65953, 65999>>, <<66046, 66175>>, <<66205, 66207>>, <<66257, 66271>>,
    <<66300, 66303>>, <<66340, 66348>>, <<66379, 66383>>, <<66427, 66431>>, <<66462, 66462>>, <<66500, 66503>>,
    <<66518, 66559>>, <<66718, 66719>>, <<66730, 66735>>, <<66772, 66775>>, <<66812, 66815>>, <<66856, 66863>>,
    <<66916, 66926>>, <<66939, 66939>>, <<66955, 66955>>, <<66963, 66963>>, <<66966, 66966>>, <<66978, 66978>>,
    <<66994, 66994>>, <<67002, 67002>>, <<67005, 67071>>, <<67383, 67391>>, <<67414, 67423>>, <<67432, 67455>>,
    <<67462, 67462>>, <<67505, 67505>>, <<67515, 67583>>, <<67590, 67591>>, <<67593, 67593>>, <<67638, 67638>>,
    <<67641, 67643>>, <<67645, 67646>>, <<67670, 67670>>, <<67743, 67750>>, <<67760, 67807>>, <<67827, 67827>>,
    <<67830, 67834>>, <<67868, 67870>>, <<67898, 67902>>, <<67904, 67967>>, <<68024, 68027>>, <<68048, 68049>>,
    <<68100, 68100>>, <<68103, 68107>>, <<68116, 68116>>, <<68120, 68120>>, <<68150, 68151>>, <<68155, 68158>>,
    <<68169, 68175>>, <<68185, 68191>>, <<68256, 68287>>, <<68327, 68330>>, <<68343, 68351>>, <<68406, 68408>>,
    <<68438, 68439>>, <<68467, 68471>>, <<68498, 68504>>, <<68509, 68520>>, <<68528, 68607>>, <<68681, 68735>>,
    <<68787, 68799>>, <<68851, 68857>>, <<68904, 68911>>, <<68922, 69215>>, <<69247, 69247>>, <<69290, 69290>>,
    <<69294, 69295>>, <<69298, 69375>>, <<69416, 69423>>, <<69466, 69487>>, <<69514, 69551>>, <<69580, 69599>>,
    <<69623, 69631>>, <<69710, 69713>>, <<69750, 69758>>, <<69821, 69821>>, <<69827, 69839>>, <<69865, 69871>>,
    <<69882, 69887>>, <<69941, 69941>>, <<69960, 69967>>, <<70007, 70015>>, <<70112, 70112>>, <<70133, 70143>>,
    <<70162, 70162>>, <<70207, 70271>>, <<70279, 70279>>, <<70281, 70281>>, <<70286, 70286>>, <<70302, 70302>>,
    <<70314, 70319>>, <<70379, 70383>>, <<70394, 70399>>, <<70404, 70404>>, <<70413, 70414>>, <<70417, 70418>>,
    <<70441, 70441>>, <<70449, 70449>>, <<70452, 70452>>, <<70458, 70458>>, <<70469, 70470>>, <<70473, 70474>>,
    <<70478, 70479>>, <<70481, 70486>>, <<70488, 70492>>, <<70500, 70501>>, <<70509, 70511>>, <<70517, 70655>>,
    <<70748, 70748>>, <<70754, 70783>>, <<70856, 70863>>, <<70874, 71039>>, <<71094, 71095>>, <<71134, 71167>>,
    <<71237, 71247>>, <<71258, 71263>>, <<71277, 71295>>, <<71354, 71359>>, <<71370, 71423>>, <<71451, 71452>>,
    <<71468, 71471>>, <<71495, 71679>>, <<71740, 71839>>, <<71923, 71934>>, <<71943, 71944>>, <<71946, 71947>>,
    <<71956, 71956>>, <<71959, 71959>>, <<71990, 71990>>, <<71993, 71994>>, <<72007, 72015>>, <<72026, 72095>>,
    <<72104, 72105>>, <<72152, 72153>>, <<72165, 72191>>, <<72264, 72271>>, <<72355, 72367>>, <<72441, 72703>>,
    <<72713, 72713>>, <<72759, 72759>>, <<72774, 72783>>, <<72813, 72815>>, <<72848, 72849>>, <<72872, 72872>>,
    <<72887, 72959>>, <<72967, 72967>>, <<72970, 72970>>, <<73015, 73017>>, <<73019, 73019>>, <<73022, 73022>>,
    <<73032, 73039>>, <<73050, 73055>>, <<73062, 73062>>, <<73065, 73065>>, <<73103, 73103>>, <<73106, 73106>>,
    <<73113, 73119>>, <<73130, 73439>>, <<73465, 73647>>, <<73649, 73663>>, <<73714, 73726>>, <<74650, 74751>>,
    <<74863, 74863>>, <<74869, 74879>>, <<75076, 77711>>, <<77811, 77823>>, <<78895, 82943>>, <<83527, 92159>>,
    <<92729, 92735>>, <<92767, 92767>>, <<92778, 92781>>, <<92863, 92863>>, <<92874, 92879>>, <<92910, 92911>>,
    <<92918, 92927>>, <<92998, 93007>>, <<93018, 93018>>, <<93026, 93026>>, <<93048, 93052>>, <<93072, 93759>>,
    <<93851, 93951>>, <<94027, 94030>>, <<94088, 94094>>, <<94112, 94175>>, <<94181, 94191>>, <<94194, 94207>>,
    <<100344, 100351>>, <<101590, 101631>>, <<101641, 110575>>, <<110580, 110580>>, <<110588, 110588>>, <<110591, 110591>>,
    <<110883, 110927>>, <<110931, 110947>>, <<110952, 110959>>, <<111356, 113663>>, <<113771, 113775>>, <<113789, 113791>>,
    <<113801, 113807>>, <<113818, 113819>>, <<113824, 118527>>, <<118574, 118575>>, <<118599, 118607>>, <<118724, 118783>>,
    <<119030, 119039>>, <<119079, 119080>>, <<119155, 119162>>, <<119275, 119295>>, <<119366, 119519>>, <<119540, 119551>>,
    <<119639, 119647>>, <<119673, 119807>>, <<119893, 119893>>, <<119965, 119965>>, <<119968, 119969>>, <<119971, 119972>>,
    <<119975, 119976>>, <<119981, 119981>>, <<119994, 119994>>, <<119996, 119996>>, <<120004, 120004>>, <<120070, 120070>>,
    <<120075, 120076>>, <<120085, 120085>>, <<120093, 120093>>, <<120122, 120122>>, <<120127, 120127>>, <<120133, 120133>>,
    <<120135, 120137>>, <<120145, 120145>>, <<120486, 120487>>, <<120780, 120781>>, <<121484, 121498>>, <<121504, 121504>>,
    <<121520, 122623>>, <<122655, 122879>>, <<122887, 122887>>, <<122905, 122906>>, <<122914, 122914>>, <<122917, 122917>>,
    <<122923, 123135>>, <<123181, 123183>>, <<123198, 123199>>, <<123210, 123213>>, <<123216, 123535>>, <<123567, 123583>>,
    <<123642, 123646>>, <<123648, 124895>>, <<124903, 124903>>, <<124908, 124908>>, <<124911, 124911>>, <<124927, 124927>>,
    <<125125, 125126>>, <<125143, 125183>>, <<125260, 125263>>, <<125274, 125277>>, <<125280, 126064>>, <<126133, 126208>>,
    <<126270, 126463>>, <<126468, 126468>>, <<126496, 126496>>, <<126499, 126499>>, <<126501, 126502>>, <<126504, 126504>>,
    <<126515, 126515>>, <<126520, 126520>>, <<126522, 126522>>, <<126524, 126529>>, <<126531, 126534>>, <<126536, 126536>>,
    <<126538, 126538>>, <<126540, 126540>>, <<126544, 126544>>, <<126547, 126547>>, <<126549, 126550>>, <<126552, 126552>>,
    <<126554, 126554>>, <<126556, 126556>>, <<126558, 126558>>, <<126560, 126560>>, <<126563, 126563>>, <<126565, 126566>>,
    <<126571, 126571>>, <<126579, 126579>>, <<126584, 126584>>, <<126589, 126589>>, <<126591, 126591>>, <<126602, 126602>>,
    <<126620, 126624>>, <<126628, 126628>>, <<126634, 126634>>, <<126652, 126703>>, <<126706, 126975>>, <<127020, 127023>>,
    <<127124, 127135>>, <<127151, 127152>>, <<127168, 127168>>, <<127184, 127184>>, <<127222, 127231>>, <<127406, 127461>>,
    <<127491, 127503>>, <<127548, 127551>>, <<127561, 127567>>, <<127570, 127583>>, <<127590, 127743>>, <<128728, 128732>>,
    <<128749, 128751>>, <<128765, 128767>>, <<128884, 128895>>, <<128985, 128991>>, <<129004, 129007>>, <<129009, 129023>>,
    <<129036, 129039>>, <<129096, 129103>>, <<129114, 129119>>, <<129160, 129167>>, <<129198, 129199>>, <<129202, 129279>>,
    <<129620, 129631>>, <<129646, 129647>>, <<129653, 129655>>, <<129661, 129663>>, <<129671, 129679>>, <<129709, 129711>>,
    <<129723, 129727>>, <<129734, 129743>>, <<129754, 129759>>, <<129768, 129775>>, <<129783, 129791>>, <<129939, 129939>>,
    <<129995, 130031>>, <<130042, 131071>>, <<173792, 173823>>, <<177977, 177983>>, <<178206, 178207>>, <<183970, 183983>>,
    <<191457, 194559>>, <<195102, 196607>>, <<201547, 917759>>, <<918000, 1114111>> }

IsPrintable(c) ==
  IF c < 128 THEN 32 <= c /\ c < 127
  ELSE ~\E r \in NonPrintableRanges : r[1] <= c /\ c <= r[2]

\* float() reads "inf", "infinity" and "nan" without regard to the case of
\* their (ASCII) letters: a text with its ASCII capitals in lower case.
AsciiLowerChar(c) == IF 65 <= c /\ c <= 90 THEN c + 32 ELSE c

AsciiLower(s) == AsSeq([i \in 1..Len(s) |-> AsciiLowerChar(s[i])])

\* The hexadecimal digits of n, at least `width` of them, in lower case.
RECURSIVE Hex(_, _)
Hex(n, width) ==
  LET d == n % 16
      c == IF d < 10 THEN 48 + d ELSE 87 + d
  IN IF n < 16 /\ width <= 1 THEN <<c>>
     ELSE Hex(n \div 16, width - 1) \o <<c>>

\* One character of repr(text) inside the quote character q: the
\* backslash, the quote, tab, newline and return by their escapes, any
\* other non-printable character by its code in hexadecimal.
ReprChar(c, q) ==
  IF c = 92 THEN <<92, 92>>
  ELSE IF c = q THEN <<92, q>>
  ELSE IF c = 9 THEN <<92, 116>>
  ELSE IF c = 10 THEN <<92, 110>>
  ELSE IF c = 13 THEN <<92, 114>>
  ELSE IF IsPrintable(c) THEN <<c>>
  ELSE IF c < 256 THEN <<92, 120>> \o Hex(c, 2)
  ELSE IF c < 65536 THEN <<92, 117>> \o Hex(c, 4)
  ELSE <<92, 85>> \o Hex(c, 8)

\* repr(text): in single quotes, or in double quotes when the text holds a
\* single quote and no double quote.
ReprText(s) ==
  LET q == IF Contains(s, {39}) /\ ~Contains(s, {34}) THEN 34 ELSE 39
  IN <<q>> \o Concat([i \in 1..Len(s) |-> ReprChar(s[i], q)]) \o <<q>>

(* --------------------------- Python values ---------------------------- *)

None == [type |-> "NoneType"]
Bool(b) == [type |-> "bool", b |-> b]
PyInt(neg, digits) == [type |-> "int", neg |-> neg, digits |-> digits]
Str(s) == [type |-> "str", s |-> s]
List(a) == [type |-> "list", items |-> a]
Tuple(a) == [type |-> "tuple", items |-> a]
Dict(members) == [type |-> "dict", items |-> members]
Exception(class, msg) == [type |-> "exception", class |-> class, msg |-> msg]
EmptyDict == Dict(<<>>)

\* The decimal digits of a natural number, most significant first, none
\* for zero.
RECURSIVE NatDigits(_)
NatDigits(n) == IF n = 0 THEN <<>> ELSE Append(NatDigits(n \div 10), n % 10)

\* The int n
Num(n) == PyInt(n < 0, NatDigits(IF n < 0 THEN -n ELSE n))

IsException(v) == v.type = "exception"

\* The classes of the exceptions raised here that derive from Exception;
\* asyncio.CancelledError derives from BaseException only.
ExceptionClasses ==
  {"AttributeError", "IndexError", "KeyError", "TypeError", "ValueError",
   "OverflowError", "ConnectError", "HTTPStatusError", "JSONDecodeError"}

\* Whether `except Exception` catches e.
IsCaught(e) == e.class \in ExceptionClasses

\* Python truth value of a value (`not x`, `if x`, all([...])).
Truthy(v) ==
  CASE v.type = "NoneType" -> FALSE
    [] v.type = "str" -> v.s # <<>>
    [] v.type = "int" -> v.digits # <<>>
    [] v.type = "bool" -> v.b
    [] v.type = "float" -> v.kind # "finite" \/ v.digits # <<>>
    [] v.type = "list" -> v.items # <<>>
    [] v.type = "tuple" -> v.items # <<>>
    [] v.type = "dict" -> v.items # <<>>

\* type(v).__name__
PyTypeName(v) == Text(v.type)

Quoted(t) == <<39>> \o t \o <<39>>

HasKey(d, key) == \E i \in 1..Len(d.items) : d.items[i][1] = key
Lookup(d, key) == d.items[CHOOSE i \in 1..Len(d.items) : d.items[i][1] = key][2]

NoAttributeGet == Text(" object has no attribute 'get'")
NotSubscriptable == Text(" object is not subscriptable")

\* v.get(key, default): only a dict has .get; anything else raises
\* AttributeError.  An exception raised earlier in the expression propagates.
PyGet(v, key, default) ==
  IF IsException(v) THEN v
  ELSE IF v.type = "dict"
       THEN IF HasKey(v, key) THEN Lookup(v, key) ELSE default
       ELSE Exception("AttributeError", Quoted(PyTypeName(v)) \o NoAttributeGet)

IndexOutOfRange == Text(" index out of range")
StringIndexOutOfRange == Text("string index out of range")

\* v[0]: the first item of a list or tuple, the first character of a text;
\* IndexError on an empty one, KeyError(0) on a dict (JSON keys are texts),
\* TypeError on anything else.
PyIndex0(v) ==
  IF IsException(v) THEN v
  ELSE CASE v.type \in {"list", "tuple"} ->
              IF v.items = <<>>
              THEN Exception("IndexError", PyTypeName(v) \o IndexOutOfRange)
              ELSE v.items[1]
         [] v.type = "dict" -> Exception("KeyError", <<48>>)
         [] v.type = "str" ->
              IF v.s = <<>> THEN Exception("IndexError", StringIndexOutOfRange)
              ELSE Str(<<v.s[1]>>)
         [] OTHER -> Exception("TypeError", Quoted(PyTypeName(v)) \o NotSubscriptable)

StringIndicesMustBeIntegers == Text("string indices must be integers, not 'str'")
IndicesMustBeIntegers == Text(" indices must be integers or slices, not str")

\* v[key] for a text key
PyItem(v, key) ==
  IF IsException(v) THEN v
  ELSE CASE v.type = "dict" ->
              IF HasKey(v, key) THEN Lookup(v, key)
              ELSE Exception("KeyError", ReprText(key))
         [] v.type = "str" -> Exception("TypeError", StringIndicesMustBeIntegers)
         [] v.type \in {"list", "tuple"} ->
              Exception("TypeError", PyTypeName(v) \o IndicesMustBeIntegers)
         [] OTHER -> Exception("TypeError", Quoted(PyTypeName(v)) \o NotSubscriptable)

ObjectOfType == Text("object of type ")
HasNoLen == Text(" has no len()")

\* len(v) > 0, or the TypeError of a value without a length.
PyLenPositive(v) ==
  CASE v.type \in {"list", "tuple", "dict"} -> Bool(v.items # <<>>)
    [] v.type = "str" -> Bool(v.s # <<>>)
    [] OTHER -> Exception("TypeError", ObjectOfType \o Quoted(PyTypeName(v)) \o HasNoLen)

(* ------------------------------ numbers ------------------------------- *)

DigitChars == 48..57

\* The text of a sequence of decimal digits, and the digits of such a text.
DigitText(d) == AsSeq([i \in 1..Len(d) |-> 48 + d[i]])
TextDigits(t) == AsSeq([i \in 1..Len(t) |-> t[i] - 48])

Zeros(n) == Repeat(0, n)

\* The number of zeros a digit sequence starts with, and ends with.
LeadingZeros(d) ==
  (CHOOSE i \in 1..(Len(d) + 1) :
     /\ i = Len(d) + 1 \/ d[i] # 0
     /\ \A j \in 1..(i - 1) : d[j] = 0) - 1

TrailingZeros(d) ==
  Len(d) - (CHOOSE i \in 0..Len(d) :
              /\ i = 0 \/ d[i] # 0
              /\ \A j \in (i + 1)..Len(d) : d[j] = 0)

StripLeadingZeros(d) == SubSeq(d, LeadingZeros(d) + 1, Len(d))
StripTrailingZeros(d) == SubSeq(d, 1, Len(d) - TrailingZeros(d))

\* The number a sequence of at most nine digits writes.
RECURSIVE NatValue(_)
NatValue(d) ==
  IF d = <<>> THEN 0 ELSE NatValue(SubSeq(d, 1, Len(d) - 1)) * 10 + d[Len(d)]

\* a < b for two digit sequences of one length.
DigitsLess(a, b) ==
  \E i \in 1..Len(a) : a[i] < b[i] /\ \A j \in 1..(i - 1) : a[j] = b[j]

\* a < b for two naturals written without leading zeros.
NatLess(a, b) == Len(a) < Len(b) \/ (Len(a) = Len(b) /\ DigitsLess(a, b))

\* The last position of d that does not hold the digit x.
LastNot(d, x) ==
  CHOOSE i \in 1..Len(d) : d[i] # x /\ \A h \in (i + 1)..Len(d) : d[h] = x

\* d with the digit at j changed by c and every later digit set to x.
Carried(d, j, c, x) ==
  AsSeq([i \in 1..Len(d) |->
           IF i < j THEN d[i] ELSE IF i = j THEN d[j] + c ELSE x])

\* The digit sequence, of the same length, of the number after (before)
\* the one d writes; d starts with a zero (is not zero).
IncrementFixed(d) == Carried(d, LastNot(d, 9), 1, 0)
DecrementFixed(d) == Carried(d, LastNot(d, 0), -1, 9)

(***************************************************************************)
(* Exact decimal arithmetic.  A decimal [d, k] is the number the digit     *)
(* sequence d writes with its last k digits after the point.  Doubling     *)
(* adds one digit in front, halving one digit at the end, so both are      *)
(* exact.                                                                  *)
(***************************************************************************)
Decimal(d, k) == [d |-> d, k |-> k]

\* The digit at i of d, zero outside d.
DigitAt(d, i) == IF 1 <= i /\ i <= Len(d) THEN d[i] ELSE 0

Double(x) ==
  Decimal(AsSeq([i \in 1..(Len(x.d) + 1) |->
                   (2 * DigitAt(x.d, i - 1)
                      + (IF DigitAt(x.d, i) >= 5 THEN 1 ELSE 0)) % 10]),
          x.k)

Halve(x) ==
  Decimal(AsSeq([i \in 1..(Len(x.d) + 1) |->
                   (DigitAt(x.d, i) + 10 * (DigitAt(x.d, i - 1) % 2)) \div 2]),
          x.k + 1)

\* x doubled n times, and halved n times.
RECURSIVE Doubled(_, _)
Doubled(x, n) ==
  IF x.d = <<>> \/ n = 0 THEN x
  ELSE IF n = 1 THEN Double(x)
  ELSE Doubled(Doubled(x, n \div 2), n - n \div 2)

RECURSIVE Halved(_, _)
Halved(x, n) ==
  IF x.d = <<>> \/ n = 0 THEN x
  ELSE IF n = 1 THEN Halve(x)
  ELSE Halved(Halved(x, n \div 2), n - n \div 2)

\* x * 2^n
Scaled(x, n) == IF n >= 0 THEN Doubled(x, n) ELSE Halved(x, -n)

\* The integer part of a decimal, without leading zeros, and the digits
\* after its point.
IntegerPart(x) == StripLeadingZeros(SubSeq(x.d, 1, Len(x.d) - x.k))
Fraction(x) == SubSeq(x.d, Len(x.d) - x.k + 1, Len(x.d))

\* Whether the digits r, read as a fraction 0.r, round up to one: more
\* than a half does, exactly a half does when `odd` (round-half-even).
RoundsUp(r, odd) ==
  /\ r # <<>>
  /\ \/ r[1] > 5
     \/ r[1] = 5 /\ ((\E i \in 2..Len(r) : r[i] # 0) \/ odd)

IsOdd(d) == d # <<>> /\ d[Len(d)] % 2 = 1

(***************************************************************************)
(* Floats.  A binary double is m * 2^q with m < 2^53, q >= -1074 and       *)
(* m >= 2^52 unless q = -1074.  A float value here is the shortest decimal *)
(* that is nearer to its double than to any other double, which is what    *)
(* repr() writes: 0.digits * 10^point with its sign, digits without a      *)
(* leading or trailing zero and empty for zero (-0.0 is the zero with      *)
(* neg = TRUE); or an infinity; or nan.                                    *)
(***************************************************************************)
Finite(neg, digits, point) ==
  [type |-> "float", kind |-> "finite", neg |-> neg, digits |-> digits,
   point |-> point]
Zero(neg) == Finite(neg, <<>>, 0)
Inf(neg) ==
  [type |-> "float", kind |-> "inf", neg |-> neg, digits |-> <<>>, point |-> 0]
NaN ==
  [type |-> "float", kind |-> "nan", neg |-> FALSE, digits |-> <<>>, point |-> 0]

TwoTo52 == <<4, 5, 0, 3, 5, 9, 9, 6, 2, 7, 3, 7, 0, 4, 9, 6>>
TwoTo53 == <<9, 0, 0, 7, 1, 9, 9, 2, 5, 4, 7, 4, 0, 9, 9, 2>>

\* The decimal 0.digits * 10^point as a Decimal.
DecimalOf(digits, point) ==
  IF point >= Len(digits)
  THEN Decimal(digits \o Zeros(point - Len(digits)), 0)
  ELSE IF point >= 0 THEN Decimal(digits, Len(digits) - point)
  ELSE Decimal(Zeros(-point) \o digits, Len(digits) - point)

\* Doubling y = x * 2^s until it reaches 2^52 or s reaches 1074, the
\* exponent of the subnormal doubles.
RECURSIVE Normalized(_, _)
Normalized(y, s) ==
  IF s < 1074 /\ NatLess(IntegerPart(y), TwoTo52)
  THEN Normalized(Double(y), s + 1)
  ELSE [y |-> y, s |-> s]

\* A decimal 0.d * 10^point (d without a leading zero) is between 2^e and
\* 2^(e + 6) for e the estimate below of its binary logarithm, so its
\* product with 2^(46 - e) is less than 2^52: the first scaling, at most
\* the 1074 of the subnormal doubles.
FirstScaling(point) ==
  LET e == ((point - 1) * 3321928) \div 1000000 - 1
  IN IF 46 - e > 1074 THEN 1074 ELSE 46 - e

\* The double m * 2^(-s), again normal when rounding up carried m to 2^53.
Renormalized(m, s) ==
  IF m = TwoTo53 THEN [m |-> TwoTo52, q |-> 1 - s] ELSE [m |-> m, q |-> -s]

\* The integer nearest to ip.frac, a tie going to the even one.
RoundHalfEven(ip, frac) ==
  IF RoundsUp(frac, IsOdd(ip)) THEN StripLeadingZeros(IncrementFixed(<<0>> \o ip))
  ELSE ip

\* The double nearest to y * 2^(-s), for n = [y, s] out of Normalized.
NearestTo(n) ==
  Renormalized(RoundHalfEven(IntegerPart(n.y), Fraction(n.y)), n.s)

\* The double nearest to the decimal 0.digits * 10^point (digits without
\* leading zeros, not all zero), ties to the even m: [m, q], m = <<>> for
\* zero and q = 972 for more than the largest double.
Nearest(digits, point) ==
  IF point > 310 THEN [m |-> TwoTo52, q |-> 972]
  ELSE IF point < -323 THEN [m |-> <<>>, q |-> -1074]
  ELSE NearestTo(Normalized(Scaled(DecimalOf(digits, point), FirstScaling(point)),
                            FirstScaling(point)))

(***************************************************************************)
(* The shortest decimal nearer to the double m * 2^q (m not zero) than to  *)
(* any other double, and of those the nearest to it.  In units of 2^(q-2)  *)
(* the double is 4m, and the decimals halfway to the doubles next to it    *)
(* are 4m - 2 (4m - 1 when m is 2^52 and the double below has the smaller  *)
(* exponent) and 4m + 2; they read back as the double itself when m is     *)
(* even.                                                                   *)
(***************************************************************************)
Quadruple(m) == Double(Double(Decimal(<<0>> \o m, 0))).d

HalfwayBelow(four, narrow) ==
  IF narrow THEN DecrementFixed(four) ELSE DecrementFixed(DecrementFixed(four))

HalfwayAbove(four) == IncrementFixed(IncrementFixed(four))

\* The three, lowest first, each times 2^n.
ScaledBounds(four, narrow, n) ==
  AsSeq([i \in 1..3 |->
           Scaled(Decimal(<<HalfwayBelow(four, narrow), four, HalfwayAbove(four)>>[i], 0),
                  n)])

\* The interval of a double: the digits of lo, mid and hi, of one length
\* with k of them after the point, f the place of mid's first digit.
Interval(b, even) ==
  [lo |-> b[1].d, mid |-> b[2].d, hi |-> b[3].d, k |-> b[2].k, even |-> even,
   f |-> LeadingZeros(b[2].d) + 1]

\* mid is written with w digits.
Exact(b, w) == \A i \in (b.f + w)..Len(b.mid) : b.mid[i] = 0

\* mid cut to w digits, and the next decimal of w digits above it.
Down(b, w) == AsSeq([i \in 1..Len(b.mid) |-> IF i < b.f + w THEN b.mid[i] ELSE 0])
Up(b, w) ==
  IncrementFixed(SubSeq(b.mid, 1, b.f + w - 1)) \o Zeros(Len(b.mid) - (b.f + w - 1))

DownFits(b, w) ==
  Exact(b, w) \/ DigitsLess(b.lo, Down(b, w)) \/ (b.even /\ Down(b, w) = b.lo)
UpFits(b, w) ==
  ~Exact(b, w) /\ (DigitsLess(Up(b, w), b.hi) \/ (b.even /\ Up(b, w) = b.hi))
Fits(b, w) == DownFits(b, w) \/ UpFits(b, w)

\* The least number of digits a decimal of the interval has.
Width(b) ==
  CHOOSE i \in 1..17 : Fits(b, i) /\ \A j \in 1..(i - 1) : ~Fits(b, j)

\* The decimal of n digits of the interval that is nearest to mid.
Pick(b, n) ==
  IF /\ UpFits(b, n)
     /\ \/ ~DownFits(b, n)
        \/ RoundsUp(SubSeq(b.mid, b.f + n, Len(b.mid)), b.mid[b.f + n - 1] % 2 = 1)
  THEN Up(b, n)
  ELSE Down(b, n)

\* The float that the digits c with k of them after the point write.
Written(neg, c, k) ==
  Finite(neg, StripTrailingZeros(StripLeadingZeros(c)),
         (Len(c) - k) - LeadingZeros(c))

ShortestIn(neg, b) == Written(neg, Pick(b, Width(b)), b.k)

Shortest(neg, m, q) ==
  ShortestIn(neg, Interval(ScaledBounds(Quadruple(m), m = TwoTo52 /\ q > -1074,
                                        q - 2),
                           ~IsOdd(m)))

\* The float of the double b.
FloatOfDouble(neg, b) ==
  IF b.m = <<>> THEN Zero(neg)
  ELSE IF b.q > 971 THEN Inf(neg)
  ELSE Shortest(neg, b.m, b.q)

\* The float nearest to 0.d * 10^p, d without leading or trailing zeros.
FloatOfStripped(neg, d, p) ==
  IF d = <<>> THEN Zero(neg) ELSE FloatOfDouble(neg, Nearest(d, p))

\* The float nearest to the decimal 0.digits * 10^point, any digits.
FloatOf(neg, digits, point) ==
  FloatOfStripped(neg, StripTrailingZeros(StripLeadingZeros(digits)),
                  point - LeadingZeros(digits))

IntTooLarge == Text("int too large to convert to float")

\* A float out of an int: OverflowError for an infinity.
Overflowing(f) ==
  IF f.kind = "inf" THEN Exception("OverflowError", IntTooLarge) ELSE f

\* float(n) of an int: OverflowError beyond the largest double.
FloatOfInt(v) == Overflowing(FloatOf(v.neg, v.digits, Len(v.digits)))
\* The double b written out: every one of its decimals.
ExactValue(b) == Scaled(Decimal(<<0>> \o b.m, 0), b.q)

\* The digits `head` as a number of units, one more when the digits `rest`
\* after them round up (a tie goes to the even number of units).
RoundedUnits(head, rest) ==
  IF RoundsUp(rest, IsOdd(head)) THEN IncrementFixed(head) ELSE head

\* The float nearest to `units` ten-thousandths.
TenThousandths(neg, units) == FloatOf(neg, units, Len(units) - 4)

\* f, of the exact value x, rounded to four decimals.
RoundedTo4(f, x) ==
  IF x.k <= 4 THEN f
  ELSE TenThousandths(f.neg,
                      RoundedUnits(SubSeq(x.d, 1, Len(x.d) - x.k + 4),
                                   SubSeq(x.d, Len(x.d) - x.k + 5, Len(x.d))))

\* round(x, 4) of a float: nan, the infinities and zero are unchanged;
\* otherwise the double nearest to the multiple of 1/10000 nearest to the
\* double x, a tie going to the even multiple, with the sign kept (a
\* negative x that rounds to zero is -0.0).  A double of magnitude 10^16 or
\* more is an integer, one below 10^-5 rounds to zero.
Round4(f) ==
  IF f.kind # "finite" \/ f.digits = <<>> \/ f.point > 16 THEN f
  ELSE IF f.point < -4 THEN Zero(f.neg)
  ELSE RoundedTo4(f, ExactValue(Nearest(f.digits, f.point)))

\* The text float() reads: a code point above 126 that is white space
\* reads as a space, one that is a decimal digit as the ASCII digit of its
\* value, any other as a character no numeral holds.
FloatChars(s) ==
  AsSeq([i \in 1..Len(s) |->
           IF s[i] < 127 THEN s[i]
           ELSE IF s[i] \in UnicodeSpaces THEN 32
           ELSE IF IsDecimal(s[i]) THEN 48 + DecimalValue(s[i])
           ELSE 63])

\* digit (["_"] digit)*: the digit groups of a float literal.
IsDigitPart(s) ==
  /\ s # <<>>
  /\ \A i \in 1..Len(s) :
       \/ s[i] \in DigitChars
       \/ /\ s[i] = 95
          /\ 1 < i /\ i < Len(s)
          /\ s[i - 1] \in DigitChars /\ s[i + 1] \in DigitChars

Unsigned(s) == IF s # <<>> /\ s[1] \in {43, 45} THEN SubSeq(s, 2, Len(s)) ELSE s
IsNegative(s) == s # <<>> /\ s[1] = 45

\* An integer part and a fraction part, a digit on one side at least.
IsParts(ip, fp) ==
  /\ ip = <<>> \/ IsDigitPart(ip)
  /\ fp = <<>> \/ IsDigitPart(fp)
  /\ ip # <<>> \/ fp # <<>>

\* [digitpart] "." [digitpart] with a digit on one side, or a digitpart.
IsMantissa(m) ==
  IF Contains(m, {46}) THEN IsParts(Before(m, {46}), After(m, {46}))
  ELSE IsDigitPart(m)

\* mantissa [("e" | "E") ["+" | "-"] digitpart]
IsNumeral(b) ==
  /\ IsMantissa(Before(b, {101, 69}))
  /\ Contains(b, {101, 69}) => IsDigitPart(Unsigned(After(b, {101, 69})))

\* The digits of a digitpart.
PartDigits(t) == TextDigits(Without(t, {95}))

\* The number the digits d write; beyond six digits it is as good as any
\* number of six digits (the float is inf or zero either way).
Magnitude(d) == IF Len(d) > 6 THEN 999999 ELSE NatValue(d)

\* The exponent the text e after the "e" of a numeral writes, zero for
\* none.
SignedExponent(e) ==
  (IF IsNegative(e) THEN -1 ELSE 1)
    * Magnitude(StripLeadingZeros(PartDigits(Unsigned(e))))

ExponentOf(b) == SignedExponent(After(b, {101, 69}))

\* The float of ip.fp * 10^e
PartsValue(neg, ip, fp, e) == FloatOf(neg, ip \o fp, Len(ip) + e)

\* The float of the mantissa m times 10^e.
MantissaValue(neg, m, e) ==
  PartsValue(neg, PartDigits(Before(m, {46})), PartDigits(After(m, {46})), e)

\* The value a numeral writes.
NumeralValue(neg, b) == MantissaValue(neg, Before(b, {101, 69}), ExponentOf(b))

CouldNotConvert == Text("could not convert string to float: ")
InfText == Text("inf")
Infinities == {InfText, Text("infinity")}
NanText == Text("nan")

\* The float the text s writes, b being what it holds after its white
\* space and its sign.
ReadFloat(s, neg, b) ==
  IF AsciiLower(b) \in Infinities THEN Inf(neg)
  ELSE IF AsciiLower(b) = NanText THEN NaN
  ELSE IF IsNumeral(b) THEN NumeralValue(neg, b)
  ELSE Exception("ValueError", CouldNotConvert \o ReprText(s))

ReadStripped(s, t) == ReadFloat(s, IsNegative(t), Unsigned(t))

\* float(text): white space around the text is dropped; a sign, then
\* "inf", "infinity" or "nan" in any case, or a decimal numeral; any other
\* text raises ValueError.
ParseFloat(s) == ReadStripped(s, StripOf(FloatChars(s), CSpaces))

\* The exponent of scientific notation: its sign and two digits at least.
ExponentText(e) ==
  IF e < 0 THEN <<45>> \o (IF e > -10 THEN <<48>> ELSE <<>>) \o DigitText(NatDigits(-e))
  ELSE <<43>> \o (IF e < 10 THEN <<48>> ELSE <<>>) \o DigitText(NatDigits(e))

\* Scientific notation of a finite non-zero float: d[.ddd]e+XX.
Scientific(digits, point) ==
  <<48 + digits[1]>>
    \o (IF Len(digits) > 1 THEN <<46>> \o DigitText(SubSeq(digits, 2, Len(digits)))
        ELSE <<>>)
    \o <<101>> \o ExponentText(point - 1)

\* Positional notation of a finite non-zero float, at least one decimal.
Positional(digits, point) ==
  IF point <= 0 THEN <<48, 46>> \o DigitText(Zeros(-point) \o digits)
  ELSE IF point >= Len(digits)
       THEN DigitText(digits \o Zeros(point - Len(digits))) \o <<46, 48>>
       ELSE DigitText(SubSeq(digits, 1, point)) \o <<46>>
              \o DigitText(SubSeq(digits, point + 1, Len(digits)))

\* str(x) and repr(x) of a float: the shortest decimal that reads back as
\* x, in scientific notation below 1e-4 and from 1e16 on.
FloatStr(f) ==
  CASE f.kind = "nan" -> NanText
    [] f.kind = "inf" -> IF f.neg THEN <<45>> \o InfText ELSE InfText
    [] f.kind = "finite" ->
         (IF f.neg THEN <<45>> ELSE <<>>)
         \o (IF f.digits = <<>> THEN <<48, 46, 48>>
             ELSE IF f.point < -3 \/ f.point > 16
                  THEN Scientific(f.digits, f.point)
                  ELSE Positional(f.digits, f.point))

FloatArgument == Text("float() argument must be a string or a real number, not ")

\* float(v)
PyFloat(v) ==
  IF IsException(v) THEN v
  ELSE CASE v.type = "str" -> ParseFloat(v.s)
         [] v.type = "int" -> FloatOfInt(v)
         [] v.type = "bool" -> IF v.b THEN Finite(FALSE, <<1>>, 1) ELSE Zero(FALSE)
         [] v.type = "float" -> v
         [] OTHER -> Exception("TypeError", FloatArgument \o Quoted(PyTypeName(v)))

ExceedsLimit ==
  Text("Exceeds the limit (4300 digits) for integer string conversion; use sys.set_int_max_str_digits() to increase the limit")

\* str(n) of an int: ValueError beyond 4300 digits.
IntStr(v) ==
  IF Len(v.digits) > 4300 THEN Exception("ValueError", ExceedsLimit)
  ELSE Str((IF v.neg THEN <<45>> ELSE <<>>)
           \o (IF v.digits = <<>> THEN <<48>> ELSE DigitText(v.digits)))

\* The first exception of a sequence of rendered values.
HasException(rs) == \E i \in 1..Len(rs) : IsException(rs[i])
FirstException(rs) ==
  rs[CHOOSE i \in 1..Len(rs) :
       IsException(rs[i]) /\ \A j \in 1..(i - 1) : ~IsException(rs[j])]

\* The texts of a sequence of strs.
Texts(rs) == AsSeq([i \in 1..Len(rs) |-> rs[i].s])

\* The first exception of a sequence of rendered values, or the text
\* between `open` and `close` of their texts joined by ", ".
Enclosed(open, rs, close) ==
  IF HasException(rs) THEN FirstException(rs)
  ELSE Str(open \o Join(<<44, 32>>, Texts(rs)) \o close)

\* One member of a dict as repr writes it, from its rendered key and value.
MemberRepr(k, r) ==
  IF IsException(r) THEN r ELSE Str(k.s \o <<58, 32>> \o r.s)

\* What closes the repr of a container of n items of the given type.
Closing(type, n) ==
  CASE type = "list" -> <<93>>
    [] type = "tuple" -> IF n = 1 THEN <<44, 41>> ELSE <<41>>
    [] type = "dict" -> <<125>>

Opening(type) ==
  CASE type = "list" -> <<91>> [] type = "tuple" -> <<40>> [] type = "dict" -> <<123>>

TrueText == Text("True")
FalseText == Text("False")
NoneText == Text("None")

\* repr(v): a str, or the exception of an int too long to write.  The
\* members of a dict are written in insertion order.
RECURSIVE PyRepr(_)
PyRepr(v) ==
  CASE v.type = "str" -> Str(ReprText(v.s))
    [] v.type = "int" -> IntStr(v)
    [] v.type = "bool" -> Str(IF v.b THEN TrueText ELSE FalseText)
    [] v.type = "float" -> Str(FloatStr(v))
    [] v.type = "NoneType" -> Str(NoneText)
    [] v.type \in {"list", "tuple", "dict"} ->
         Enclosed(Opening(v.type),
                  AsSeq([i \in 1..Len(v.items) |->
                           IF v.type = "dict"
                           THEN MemberRepr(PyRepr(Str(v.items[i][1])),
                                           PyRepr(v.items[i][2]))
                           ELSE PyRepr(v.items[i])]),
                  Closing(v.type, Len(v.items)))

\* str(v) as an f-string renders it: a text as it is, anything else as
\* repr writes it.  An exception raised earlier propagates.
PyStr(v) ==
  IF IsException(v) THEN v
  ELSE IF v.type = "str" THEN v
  ELSE PyRepr(v)

\* An f-string of the given values: the first exception among them, as
\* they are rendered from left to right, or the str of their texts in a
\* row.
Rendered(rs) ==
  IF HasException(rs) THEN FirstException(rs) ELSE Str(Concat(Texts(rs)))

Format(parts) == Rendered(AsSeq([i \in 1..Len(parts) |-> PyStr(parts[i])]))
(* ----------------------------- constants ------------------------------ *)

NWS_API_BASE == Text("https://api.weather.gov")

\* The place names get_weather is invoked with.
Cities == {Text("San Francisco, CA"), Text("Atlantis")}

(* --------------------------- HTTP fetching ---------------------------- *)

Cancelled == [status |-> "cancelled"]

\* await client.get(...) / raise_for_status() / response.json(): the parsed
\* body, or the exception of a network error, a non-success status or a
\* malformed body (every handler of these three discards the message), or
\* the CancelledError thrown into the wait when the host cancels.
HttpGetJson(resp) ==
  CASE resp.status = "ok" -> resp.body
    [] resp.status = "network_error" -> Exception("ConnectError", EmptyText)
    [] resp.status = "http_error" -> Exception("HTTPStatusError", EmptyText)
    [] resp.status = "malformed" -> Exception("JSONDecodeError", EmptyText)
    [] resp.status = "cancelled" -> Exception("CancelledError", EmptyText)

\* `except Exception: return None`
NoneIfCaught(r) == IF IsException(r) /\ IsCaught(r) THEN None ELSE r

\* make_nws_request: an exception `except Exception` catches becomes None.
make_nws_request(resp) == NoneIfCaught(HttpGetJson(resp))

GeocodeUrlHead == Text("https://nominatim.openstreetmap.org/search?q=")
GeocodeUrlTail == Text("&format=json&limit=1")

\* Line 37: the URL of the geocoding request.
GeocodeUrl(c) == GeocodeUrlHead \o c \o GeocodeUrlTail

LatKey == Text("lat")
LonKey == Text("lon")

\* Lines 47-49: (lat, lon), or the first exception of the two.
Coordinates(pair) ==
  IF IsException(pair[1]) THEN pair[1]
  ELSE IF IsException(pair[2]) THEN pair[2]
  ELSE Tuple(pair)

\* float(hit["lat"]) and float(hit["lon"])
HitFloats(hit) ==
  Coordinates(AsSeq([i \in 1..2 |-> PyFloat(PyItem(hit, <<LatKey, LonKey>>[i]))]))

\* Line 46 on: `len(data) > 0` and the coordinates of data[0].
FirstHit(data, positive) ==
  IF IsException(positive) THEN positive
  ELSE IF ~positive.b THEN None
  ELSE HitFloats(PyIndex0(data))

\* Lines 46-50 on the parsed body: `if data and len(data) > 0`.
CoordinatesIn(data) ==
  IF IsException(data) THEN data
  ELSE IF ~Truthy(data) THEN None
  ELSE FirstHit(data, PyLenPositive(data))

\* The try block of geocode_city (lines 41-50).
GeocodeTry(resp) == CoordinatesIn(HttpGetJson(resp))

\* geocode_city: (lat, lon), or None for any exception `except Exception`
\* catches.
geocode_city(resp) == NoneIfCaught(GeocodeTry(resp))

CouldNotFind == Text("Could not find coordinates for city: ")
PointsPath == Text("/points/")

\* str(round(x, 4)).strip()
CoordinateText(x) == Strip(FloatStr(Round4(x)))

\* Lines 66-77 of get_points_url, from the coordinates of its geocoding.
PointsUrlOf(c, coords) ==
  IF IsException(coords) THEN coords
  ELSE IF ~Truthy(coords) THEN Str(CouldNotFind \o c)
  ELSE Str(NWS_API_BASE \o PointsPath
             \o Join(<<44>>, AsSeq([i \in 1..2 |-> CoordinateText(coords.items[i])])))

\* get_points_url, resumed with the answer of its geocoding request: the
\* points URL, or the message that the place has no coordinates.
get_points_url(c, resp) == PointsUrlOf(c, geocode_city(resp))

GridpointsPath == Text("/gridpoints/")
ForecastPath == Text("/forecast")

\* Lines 92-93: the forecast URL of a grid triple.
get_forecast_url(grid_id, grid_x, grid_y) ==
  Format(<<Str(NWS_API_BASE \o GridpointsPath), grid_id, Str(<<47>>),
           grid_x, Str(<<44>>), grid_y, Str(ForecastPath)>>)

PropertiesKey == Text("properties")
GridIdKey == Text("gridId")
GridXKey == Text("gridX")
GridYKey == Text("gridY")
FailedToRetrievePoints == Text("Failed to retrieve points data")
GridInformationMissing == Text("Grid information is missing")

GridKeys == <<GridIdKey, GridXKey, GridYKey>>

\* any() in place of all()
AllOf_any(vals) == \E i \in 1..Len(vals) : Truthy(vals[i])

\* all([grid_id, grid_x, grid_y])
AllOf(vals) == \A i \in 1..Len(vals) : Truthy(vals[i])

\* Lines 116-119 on the three values read.
GridTriple(vals) ==
  IF IsException(vals[1]) THEN vals[1]
  ELSE IF ~AllOf(vals) THEN Exception("ValueError", GridInformationMissing)
  ELSE Tuple(vals)

\* Lines 112-119: properties.get("gridId"), .get("gridX"), .get("gridY").
GridOfProperties(properties) ==
  GridTriple(AsSeq([i \in 1..3 |-> PyGet(properties, GridKeys[i], None)]))

\* Lines 108-119 on what make_nws_request returned.
GridOf(points_data) ==
  IF IsException(points_data) THEN points_data
  ELSE IF ~Truthy(points_data)
  THEN Exception("ValueError", FailedToRetrievePoints)
  ELSE GridOfProperties(PyGet(points_data, PropertiesKey, EmptyDict))

\* The try block of extract_grid_info (lines 106-119), resumed with the
\* answer of the points request.
GridTry(resp) == GridOf(make_nws_request(resp))

ExtractGridInfoPrefix == Text("extract_grid_info: ")

\* Lines 120-121: the ValueError raised in place of a caught exception.
Reraised(r) ==
  IF IsException(r) /\ IsCaught(r)
  THEN Exception("ValueError", ExtractGridInfoPrefix \o r.msg)
  ELSE r

\* extract_grid_info: the (gridId, gridX, gridY) triple, or the ValueError
\* its except clause raises in place of any exception it catches.
extract_grid_info(resp) == Reraised(GridTry(resp))

(* ----------------------------- get_weather ---------------------------- *)

NoResult == [kind |-> "none"]
Return(text) == [kind |-> "return", text |-> text]
Raise(e) == [kind |-> "raise", exception |-> e]

CouldNotFindPrefix == Text("Could not find coordinates")

\* get_weather never taking get_points_url's text for the error message.
StartsWithCouldNotFind_never(url) == FALSE

\* points_url.startswith("Could not find coordinates")
StartsWithCouldNotFind(url) == StartsWith(url, CouldNotFindPrefix)

UnexpectedErrorPrefix == Text("Unexpected error in get_weather: ")

\* get_weather without its except clause: the exception leaves get_weather.
UnexpectedError_reraise(e) == Raise(e)

\* The except clause of get_weather (lines 191-192) on an exception it
\* catches.
UnexpectedError(e) == Return(UnexpectedErrorPrefix \o e.msg)

\* How an exception raised inside the try block of get_weather ends the
\* invocation: as the text of the except clause, or, not caught, raised to
\* the caller.
Except(e) == IF IsCaught(e) THEN UnexpectedError(e) ELSE Raise(e)

GridGuidance ==
  Text("Could not determine weather grid for this location. Please check your city name or try a different city.")

NoPeriods == Text("No forecast periods available in the API response.")

FailedToRetrieveForecast == Text("Failed to retrieve forecast data from URL: ")

ForecastFailed(url) == FailedToRetrieveForecast \o url

Unknown == Text("Unknown")
RelativeLocationKey == Text("relativeLocation")
CityKey == Text("city")
StateKey == Text("state")

\* Line 177: the location shown, from the city and the state read.
ShownLocation(c, location_city, location_state) ==
  IF IsException(location_city) THEN location_city
  ELSE IF location_city # Str(Unknown)
  THEN Format(<<location_city, Str(<<44, 32>>), location_state>>)
  ELSE Str(c)

\* Lines 175-177 on relativeLocation's properties.
LocationIn(c, rel) ==
  ShownLocation(c, PyGet(rel, CityKey, Str(Unknown)),
                PyGet(rel, StateKey, Str(Unknown)))

\* Lines 173-179 on what make_nws_request returned.
LocationOf(c, points_data) ==
  IF IsException(points_data) THEN points_data
  ELSE IF ~Truthy(points_data) THEN Str(c)
  ELSE LocationIn(c, PyGet(PyGet(PyGet(points_data, PropertiesKey, EmptyDict),
                                 RelativeLocationKey, EmptyDict),
                           PropertiesKey, EmptyDict))

\* Lines 172-179, resumed with the answer of the second points request: the
\* location shown.
LocationDisplay(c, resp) == LocationOf(c, make_nws_request(resp))

\* A field read without its default: current.get(key).
Field_nodefault(cur, key, default) == PyGet(cur, key, None)

\* One field of the report: current.get(key, default).
Field(cur, key, default) == PyGet(cur, key, Str(default))

NameKey == Text("name")
TemperatureKey == Text("temperature")
TemperatureUnitKey == Text("temperatureUnit")
ShortForecastKey == Text("shortForecast")
WindSpeedKey == Text("windSpeed")
WindDirectionKey == Text("windDirection")
DetailedForecastKey == Text("detailedForecast")

WeatherFor == Text("\nWeather for ")
CoordinatesLine == Text(":\nCoordinates: ")
ForecastLine == Text("\nForecast: ")
TemperatureLine == Text("\nTemperature: ")
ConditionsLine == Text("\nConditions: ")
WindLine == Text("\nWind: ")
DetailsLine == Text("\nDetails: ")
NoDetailedForecast == Text("No detailed forecast available")
Fahrenheit == Text("F")

\* The two characters between the temperature and its unit on line 186,
\* U+00C2 and U+00B0.
DegreeSign == <<194, 176>>

\* Lines 182-190: the report text.
FormatReport(location_display, latitude, longitude, cur) ==
  Format(<<Str(WeatherFor), location_display,
           Str(CoordinatesLine), latitude, Str(<<44, 32>>), longitude,
           Str(ForecastLine), Field(cur, NameKey, Unknown),
           Str(TemperatureLine), Field(cur, TemperatureKey, Unknown),
           Str(DegreeSign), Field(cur, TemperatureUnitKey, Fahrenheit),
           Str(ConditionsLine), Field(cur, ShortForecastKey, Unknown),
           Str(WindLine), Field(cur, WindSpeedKey, Unknown),
           Str(<<32>>), Field(cur, WindDirectionKey, EmptyText),
           Str(DetailsLine), Field(cur, DetailedForecastKey, NoDetailedForecast),
           Str(<<10>>)>>)
(* ------------------------------- inputs ------------------------------- *)

Ok(body) == [status |-> "ok", body |-> body]

Failures ==
  {[status |-> "network_error"], [status |-> "http_error"], [status |-> "malformed"]}

\* The str of a string of this module, and a member of a dict.
S(s) == Str(Text(s))
Member(key, value) == <<Text(key), value>>

\* A value left out of a dict.
Absent == [type |-> "absent"]

\* The dict of the members, in order, whose value is not Absent.
DictOf(members) ==
  Dict(Concat([i \in 1..Len(members) |->
                 IF members[i][2] = Absent THEN <<>> ELSE <<members[i]>>]))

GeoHit(lat, lon) == DictOf(<<Member("lat", lat), Member("lon", lon)>>)

SanFrancisco == List(<<GeoHit(S("37.7749"), S("-122.4194"))>>)
NewYork == List(<<GeoHit(S("40.71278"), S("-74.00594"))>>)
NotFinite == List(<<GeoHit(S("nan"), S("-Infinity"))>>)

\* A latitude behind a no-break space and a longitude in Arabic-Indic
\* digits.
UnicodeHit ==
  List(<<GeoHit(Str(<<160>> \o Text("37.7749")),
                Str(<<45, 1633, 1634, 1634, 46, 1636, 1633, 1641, 1636>>))>>)

GeoBodies ==
  { List(<<>>), EmptyDict, None, Num(5), Bool(TRUE),
    S("Bandwidth limit exceeded"),
    DictOf(<<Member("error", S("Bandwidth limit exceeded"))>>),
    SanFrancisco, NewYork, NotFinite, UnicodeHit,
    List(<<GeoHit(S("0.00001"), S("-0.00003"))>>),
    List(<<GeoHit(S(" 40.71278\n"), S("-7.400594e1"))>>),
    List(<<GeoHit(S("37.774929999999999999"), S("-122.41941550000001"))>>),
    List(<<GeoHit(Num(37), Num(-122))>>),
    List(<<GeoHit(Finite(FALSE, <<3, 7, 7, 7, 4, 9>>, 2),
                  Finite(TRUE, <<1, 2, 2, 4, 1, 9, 4>>, 3))>>),
    List(<<GeoHit(S("1_0.5"), S("-0"))>>),
    List(<<GeoHit(S("abc"), S("-122.4194"))>>),
    List(<<GeoHit(S("37.7749"), S("1e"))>>),
    List(<<GeoHit(S("37.7749"), S(""))>>),
    List(<<GeoHit(Str(<<31>> \o Text("37.7749")), S("-122.4194"))>>),
    List(<<GeoHit(None, None)>>),
    List(<<GeoHit(S("37.7749"), Absent)>>),
    List(<<S("37.7749")>>) }

\* The answers of the first geocoding request.
GeoResponses == Failures \cup {Cancelled} \cup {Ok(b) : b \in GeoBodies}

\* The answers of the second geocoding request.
DisplayGeoResponses ==
  Failures \cup {Cancelled}
  \cup {Ok(b) : b \in {List(<<>>), SanFrancisco, NewYork, NotFinite,
                       List(<<GeoHit(S("abc"), S("-122.4194"))>>)}}

RelLoc(c, s) ==
  DictOf(<<Member("properties", DictOf(<<Member("city", c), Member("state", s)>>))>>)

RelLocs ==
  { Absent, None, EmptyDict,
    RelLoc(S("San Francisco"), S("CA")),
    RelLoc(S("New York"), S("NY")),
    RelLoc(S("San Francisco"), Absent),
    RelLoc(Absent, S("CA")),
    RelLoc(S("Unknown"), S("CA")),
    DictOf(<<Member("properties", None)>>) }

FullRelLoc == RelLoc(S("San Francisco"), S("CA"))

PointsBody(id, x, y, rel) ==
  DictOf(<<Member("properties",
                  DictOf(<<Member("gridId", id), Member("gridX", x),
                           Member("gridY", y), Member("relativeLocation", rel)>>))>>)

MalformedPointsBodies ==
  { EmptyDict, None, List(<<>>), List(<<Num(1)>>), S("Not Found"),
    DictOf(<<Member("properties", None)>>),
    DictOf(<<Member("status", Num(404))>>) }

\* The answers of the points request of the grid resolution.
GridPointsResponses ==
  Failures \cup {Cancelled}
  \cup { Ok(PointsBody(id, x, y, FullRelLoc)) :
           id \in {Absent, None, S(""), S("MTR")},
           x \in {Absent, Num(0), Num(85)},
           y \in {Absent, Num(0), Num(105)} }
  \cup { Ok(PointsBody(S("OKX"), Num(33), Num(35), FullRelLoc)),
         Ok(PointsBody(S("MTR"), S("85"), Bool(TRUE), Absent)),
         Ok(PointsBody(Num(7), Finite(FALSE, <<8, 5, 5>>, 2), List(<<Num(105)>>), Absent)),
         Ok(PointsBody(List(<<Str(<<160>>)>>), Num(85), Num(105), Absent)) }
  \cup { Ok(b) : b \in MalformedPointsBodies }

\* The answers of the points request of the location shown.
LocationPointsResponses ==
  Failures \cup {Cancelled}
  \cup { Ok(PointsBody(S("MTR"), Num(85), Num(105), rel)) : rel \in RelLocs }
  \cup { Ok(b) : b \in MalformedPointsBodies }

FullPeriod ==
  DictOf(<<Member("name", S("Tonight")), Member("temperature", Num(58)),
           Member("temperatureUnit", S("F")), Member("shortForecast", S("Clear")),
           Member("windSpeed", S("5 mph")), Member("windDirection", S("W")),
           Member("detailedForecast", S("Clear skies."))>>)

OtherPeriod ==
  DictOf(<<Member("name", S("Monday")), Member("temperature", Num(-3)),
           Member("temperatureUnit", S("C")), Member("shortForecast", S("Snow")),
           Member("windSpeed", S("20 mph")), Member("windDirection", S("NE")),
           Member("detailedForecast", S("Heavy snow."))>>)

PeriodFields == {FullPeriod.items[i][1] : i \in 1..Len(FullPeriod.items)}

\* FullPeriod with exactly the fields of `keep` present.
PeriodWith(keep) ==
  DictOf([i \in 1..Len(FullPeriod.items) |->
            IF FullPeriod.items[i][1] \in keep THEN FullPeriod.items[i]
            ELSE <<FullPeriod.items[i][1], Absent>>])

\* The periods the main specification draws from.
Periods ==
  { FullPeriod, OtherPeriod, PeriodWith({}),
    PeriodWith(PeriodFields \ {WindDirectionKey}) }

\* Every period with a subset of the optional fields absent.
AllPeriods == {PeriodWith(keep) : keep \in SUBSET PeriodFields}

\* The sequences of at most n periods, the first of First, the rest of Rest.
PeriodSeqs(First, Rest, n) ==
  {<<>>} \cup UNION { { <<f>> \o r : f \in First, r \in [1..k -> Rest] } : k \in 0..(n - 1) }

ForecastBody(ps) ==
  DictOf(<<Member("properties", DictOf(<<Member("periods", ps)>>))>>)

MalformedForecastBodies ==
  { EmptyDict, None, List(<<>>), List(<<Num(1)>>),
    DictOf(<<Member("properties", EmptyDict)>>),
    DictOf(<<Member("properties", None)>>),
    DictOf(<<Member("status", Num(500))>>),
    ForecastBody(None), ForecastBody(Num(5)),
    ForecastBody(S("")), ForecastBody(S("abc")),
    ForecastBody(DictOf(<<Member("a", Num(1))>>)),
    ForecastBody(List(<<None>>)),
    ForecastBody(List(<<S("Tonight")>>)) }

ForecastResponses(First, Rest) ==
  Failures \cup {Cancelled}
  \cup {Ok(ForecastBody(List(ps))) : ps \in PeriodSeqs(First, Rest, MaxPeriods)}
  \cup {Ok(b) : b \in MalformedForecastBodies}

(* ------------------------------- state -------------------------------- *)
(* pc is where the coroutine stands: "idle" before the first invocation,   *)
(* "done" after get_weather returned or raised, otherwise the wait it is   *)
(* suspended in.  requests is the log of the URLs sent so far, answers the *)
(* log of the answers received: at a wait one request is unanswered.       *)

Init ==
  /\ pc = "idle"
  /\ city = EmptyText
  /\ requests = <<>>
  /\ answers = <<>>
  /\ points_url = None
  /\ url_coordinates = None
  /\ coordinates = None
  /\ grid_info = None
  /\ forecast_url = None
  /\ periods = None
  /\ current = None
  /\ result = NoResult

\* get_weather returns or raises: the invocation is over.
Finish(r) ==
  /\ pc' = "done"
  /\ result' = r
  /\ UNCHANGED requests

\* The coroutine sends the next request and waits for its answer.
Await(wait, url) ==
  /\ pc' = wait
  /\ requests' = Append(requests, url)
  /\ UNCHANGED result

\* A host invokes get_weather(c): fresh locals, and the code runs to its
\* first wait, the geocoding request of get_points_url (lines 136, 65, 42).
Invoke(c) ==
  /\ pc \in {"idle", "done"}
  /\ pc' = "get_points_url"
  /\ city' = c
  /\ requests' = <<GeocodeUrl(c)>>
  /\ answers' = <<>>
  /\ points_url' = None
  /\ url_coordinates' = None
  /\ coordinates' = None
  /\ grid_info' = None
  /\ forecast_url' = None
  /\ periods' = None
  /\ current' = None
  /\ result' = NoResult

\* Lines 139-143: get_points_url returned url, or raised it; coords are the
\* coordinates it was built from.
GotPointsUrl(url, coords) ==
  IF IsException(url)
  THEN Finish(Except(url)) /\ UNCHANGED <<points_url, url_coordinates>>
  ELSE /\ points_url' = url
       /\ url_coordinates' = coords
       /\ IF StartsWithCouldNotFind(url.s)
          THEN Finish(Return(url.s))
          ELSE Await("geocode_city", GeocodeUrl(city))

\* Lines 42-77 and 136-143: the first geocoding request is answered;
\* get_points_url builds the points URL, its no-coordinates message is the
\* result, and otherwise the second geocoding request is sent.
GetPointsUrl(resp) ==
  /\ pc = "get_points_url"
  /\ answers' = Append(answers, resp)
  /\ GotPointsUrl(get_points_url(city, resp), geocode_city(resp))
  /\ UNCHANGED <<city, coordinates, grid_info, forecast_url, periods, current>>

\* Lines 143-150: geocode_city returned coords, or raised it.
GotCoordinates(coords) ==
  IF IsException(coords)
  THEN Finish(Except(coords)) /\ UNCHANGED coordinates
  ELSE /\ coordinates' = coords
       /\ IF ~Truthy(coords)
          THEN Finish(Return(CouldNotFind \o city))
          ELSE Await("extract_grid_info", points_url.s)

\* Lines 42-52, 143-150 and 107: the second geocoding request is answered,
\* for the coordinates shown, and the points request is sent.
GeocodeForDisplay(resp) ==
  /\ pc = "geocode_city"
  /\ answers' = Append(answers, resp)
  /\ GotCoordinates(geocode_city(resp))
  /\ UNCHANGED <<city, points_url, url_coordinates, grid_info, forecast_url,
                 periods, current>>

\* Lines 157-158: get_forecast_url returned url, or raised it.
GotForecastUrl(url) ==
  IF IsException(url)
  THEN Finish(Except(url)) /\ UNCHANGED forecast_url
  ELSE forecast_url' = url /\ Await("forecast", url.s)

\* Lines 150-158: extract_grid_info returned info, or raised it.
GotGridInfo(info) ==
  IF IsException(info)
  THEN Finish(Except(info)) /\ UNCHANGED <<grid_info, forecast_url>>
  ELSE /\ grid_info' = info
       /\ IF ~Truthy(info)
          THEN Finish(Return(GridGuidance)) /\ UNCHANGED forecast_url
          ELSE GotForecastUrl(get_forecast_url(info.items[1], info.items[2],
                                               info.items[3]))

\* Lines 107-121 and 150-158: the points request is answered; the grid
\* triple, the forecast URL, and the forecast request is sent.
ExtractGridInfo(resp) ==
  /\ pc = "extract_grid_info"
  /\ answers' = Append(answers, resp)
  /\ GotGridInfo(extract_grid_info(resp))
  /\ UNCHANGED <<city, points_url, url_coordinates, coordinates, periods, current>>

PeriodsKey == Text("periods")

\* forecast_data.get("properties", {}).get("periods", [])
PeriodsOf(forecast_data) ==
  PyGet(PyGet(forecast_data, PropertiesKey, EmptyDict), PeriodsKey, List(<<>>))

\* Lines 169-172: periods[0] gave cur, or raised it.
GotCurrent(cur) ==
  IF IsException(cur)
  THEN Finish(Except(cur)) /\ UNCHANGED current
  ELSE current' = cur /\ Await("location", points_url.s)

\* Lines 164-172: the periods read are ps, or reading them raised ps.
GotPeriods(ps) ==
  IF IsException(ps)
  THEN Finish(Except(ps)) /\ UNCHANGED <<periods, current>>
  ELSE /\ periods' = ps
       /\ IF ~Truthy(ps)
          THEN Finish(Return(NoPeriods)) /\ UNCHANGED current
          ELSE GotCurrent(PyIndex0(ps))

\* Lines 160-172: make_nws_request returned forecast_data, or raised it.
GotForecast(forecast_data) ==
  IF IsException(forecast_data)
  THEN Finish(Except(forecast_data)) /\ UNCHANGED <<periods, current>>
  ELSE IF ~Truthy(forecast_data)
  THEN Finish(Return(ForecastFailed(forecast_url.s))) /\ UNCHANGED <<periods, current>>
  ELSE GotPeriods(PeriodsOf(forecast_data))

\* Lines 158-172: the forecast request is answered; its periods, the
\* current period, and the points request for the location is sent.
FetchForecast(resp) ==
  /\ pc = "forecast"
  /\ answers' = Append(answers, resp)
  /\ GotForecast(make_nws_request(resp))
  /\ UNCHANGED <<city, points_url, url_coordinates, coordinates, grid_info, forecast_url>>

\* How the formatting ends get_weather: the report returned, or the
\* outcome of the exception raised on the way.
Outcome(report) == IF IsException(report) THEN Except(report) ELSE Return(report.s)

\* Lines 172-192: the location shown and the report.
FormatStep(c, lat, lon, cur, resp) ==
  Outcome(FormatReport(LocationDisplay(c, resp), lat, lon, cur))

\* Lines 172-190: the second points request is answered, and the report is
\* formatted from the current period.
LocateAndFormat(resp) ==
  /\ pc = "location"
  /\ answers' = Append(answers, resp)
  /\ Finish(FormatStep(city, coordinates.items[1], coordinates.items[2], current, resp))
  /\ UNCHANGED <<city, points_url, url_coordinates, coordinates, grid_info,
                 forecast_url, periods, current>>

Next ==
  \/ \E c \in Cities : Invoke(c)
  \/ \E resp \in GeoResponses : GetPointsUrl(resp)
  \/ \E resp \in DisplayGeoResponses : GeocodeForDisplay(resp)
  \/ \E resp \in GridPointsResponses : ExtractGridInfo(resp)
  \/ \E resp \in ForecastResponses(Periods, {OtherPeriod}) : FetchForecast(resp)
  \/ \E resp \in LocationPointsResponses : LocateAndFormat(resp)

Spec == Init /\ [][Next]_vars

\* The answers of the formatting specification: one place found or not,
\* one grid resolved or not.
FormatGeoResponses == Failures \cup {Cancelled, Ok(SanFrancisco), Ok(List(<<>>))}

FormatPointsResponses ==
  Failures \cup {Cancelled, Ok(PointsBody(S("MTR"), Num(85), Num(105), FullRelLoc))}

\* The same program with the forecast's first period ranging over every
\* subset of the optional fields present.
NextFormat ==
  \/ \E c \in Cities : Invoke(c)
  \/ \E resp \in FormatGeoResponses : GetPointsUrl(resp)
  \/ \E resp \in FormatGeoResponses : GeocodeForDisplay(resp)
  \/ \E resp \in FormatPointsResponses : ExtractGridInfo(resp)
  \/ \E resp \in ForecastResponses(AllPeriods, {OtherPeriod}) : FetchForecast(resp)
  \/ \E resp \in LocationPointsResponses : LocateAndFormat(resp)

SpecFormat == Init /\ [][NextFormat]_vars


(* ------------------------- reading the state -------------------------- *)

Done == pc = "done"
Answered(n) == Len(answers) >= n

IsDict(v) == v.type = "dict"
Has(v, key) == IsDict(v) /\ HasKey(v, key)
BodyOf(resp) == IF resp.status = "ok" THEN resp.body ELSE None
Failed(resp) == resp.status \in {"network_error", "http_error", "malformed"}

\* The "properties" member of a response's body, where it has one.
PropsOf(resp) ==
  IF Has(BodyOf(resp), PropertiesKey) THEN Lookup(BodyOf(resp), PropertiesKey)
  ELSE EmptyDict

\* properties.relativeLocation.properties of a points response, where present.
RelPropsOf(resp) ==
  IF /\ Has(PropsOf(resp), RelativeLocationKey)
     /\ Has(Lookup(PropsOf(resp), RelativeLocationKey), PropertiesKey)
  THEN Lookup(Lookup(PropsOf(resp), RelativeLocationKey), PropertiesKey)
  ELSE EmptyDict

IsPrefix(s, t) == Len(s) <= Len(t) /\ \A i \in 1..Len(s) : s[i] = t[i]
EndsWith(s, t) == Len(t) <= Len(s) /\ SubSeq(s, Len(s) - Len(t) + 1, Len(s)) = t

\* The numbers of the forecast periods above as a report shows them.
ShownNumbers == {<<Num(58), Text("58")>>, <<Num(-3), Text("-3")>>}

\* A present field as the report shows it, unchanged: a text as it is, a
\* number in decimal.
ShownText(v) ==
  IF v.type = "str" THEN v.s ELSE (CHOOSE p \in ShownNumbers : p[1] = v)[2]

\* A field of a period as the report shows it: the value when present,
\* else the default.
Shown(period, key, default) ==
  IF HasKey(period, key) THEN ShownText(Lookup(period, key)) ELSE default

\* The lines of a report after its coordinates line, with the given default
\* for an absent temperature unit.
FieldLines(period, unit_default) ==
  ForecastLine \o Shown(period, NameKey, Unknown)
  \o TemperatureLine \o Shown(period, TemperatureKey, Unknown)
  \o DegreeSign \o Shown(period, TemperatureUnitKey, unit_default)
  \o ConditionsLine \o Shown(period, ShortForecastKey, Unknown)
  \o WindLine \o Shown(period, WindSpeedKey, Unknown)
  \o <<32>> \o Shown(period, WindDirectionKey, EmptyText)
  \o DetailsLine \o Shown(period, DetailedForecastKey, NoDetailedForecast)
  \o <<10>>

\* The report text, line by line.
ReportText(location, lat, lon, period, unit_default) ==
  WeatherFor \o location
  \o CoordinatesLine \o FloatStr(lat) \o <<44, 32>> \o FloatStr(lon)
  \o FieldLines(period, unit_default)

\* str(e) of the AttributeError of calling .get on a value that is no dict.
NoGetAttribute ==
  { Quoted(Text(t)) \o NoAttributeGet
      : t \in {"NoneType", "str", "int", "bool", "float", "list", "tuple"} }

\* The invocation ended in step 6 with a formatted report: all five
\* requests were answered and the result is no unexpected-error text.
Reported ==
  /\ Done /\ Len(answers) = 5 /\ result.kind = "return"
  /\ result.text \notin {UnexpectedErrorPrefix \o m : m \in NoGetAttribute}

(* ------------------------------- claims ------------------------------- *)

NotCancelled == \A i \in 1..Len(answers) : answers[i] # Cancelled

\* C1 (as amended): whatever the upstream requests answer (a failure of any
\* class, or a body of any JSON shape), an invocation that has ended
\* without being cancelled has returned a text; the one exception raised
\* past get_weather is the CancelledError of a cancellation delivered at one
\* of its waits, which ends the invocation there.
C1_ReturnsTextUnlessCancelled ==
  /\ Done <=> result # NoResult
  /\ (Done /\ NotCancelled) => result.kind = "return" /\ result.text \in Seq(Nat)
  /\ (Done /\ ~NotCancelled) =>
       /\ answers[Len(answers)] = Cancelled
       /\ result = Raise(Exception("CancelledError", EmptyText))

PointsLookupFailedText ==
  Text("Unexpected error in get_weather: extract_grid_info: Failed to retrieve points data")

\* C1 witness: an exception raised inside get_weather (here by
\* extract_grid_info on an unreachable points lookup) ended as returned text.
C1_Witness ==
  /\ Done /\ Len(answers) = 3 /\ Failed(answers[3])
  /\ result = Return(PointsLookupFailedText)

\* C1 as stated: every invocation that has ended has returned a text; no
\* exception is ever raised past get_weather.
C1_Original == Done => result.kind = "return" /\ result.text \in Seq(Nat)

\* A text that writes no number: it holds no decimal digit.
NonNumeric(v) == v.type = "str" /\ \A i \in 1..Len(v.s) : ~IsDecimal(v.s[i])

\* The geocoder yields Absent: the request failed, the result list is empty,
\* or the first result's lat or lon text is not numeric.
GeocoderAbsent(resp) ==
  \/ Failed(resp)
  \/ resp.status = "ok" /\ resp.body = List(<<>>)
  \/ /\ resp.status = "ok" /\ resp.body.type = "list" /\ resp.body.items # <<>>
     /\ Has(resp.body.items[1], LatKey) /\ Has(resp.body.items[1], LonKey)
     /\ \/ NonNumeric(Lookup(resp.body.items[1], LatKey))
        \/ NonNumeric(Lookup(resp.body.items[1], LonKey))

CouldNotFindLowerCase == Text("could not find coordinates for city: ")

\* C2: when the geocoder yields Absent, the invocation ends there and
\* returns exactly "could not find coordinates for city: {place}", {place}
\* verbatim (the text is compared without regard to the case of its first
\* letter, which the code writes as a capital).
C2_CouldNotFindText ==
  (Answered(1) /\ GeocoderAbsent(answers[1])) =>
    /\ Done /\ Len(answers) = 1
    /\ result \in {Return(CouldNotFind \o city), Return(CouldNotFindLowerCase \o city)}

\* The grid cannot be resolved from a points response: the lookup is Absent,
\* or its properties lack gridId, gridX or gridY.
GridUnresolved(resp) ==
  \/ Failed(resp)
  \/ /\ IsDict(BodyOf(resp)) /\ IsDict(PropsOf(resp))
     /\ \E k \in {GridIdKey, GridXKey, GridYKey} : ~Has(PropsOf(resp), k)

\* C3: when geocoding succeeded and the grid cannot be resolved, the result
\* is the fixed grid-guidance message.
C3_GridGuidance ==
  (Len(answers) = 3 /\ GridUnresolved(answers[3])) =>
    Done /\ result = Return(GridGuidance)

\* A valid forecast response with zero periods: a JSON object whose
\* properties are missing, or an object whose periods are missing or empty.
ZeroPeriods(resp) ==
  /\ IsDict(BodyOf(resp))
  /\ \/ ~Has(BodyOf(resp), PropertiesKey)
     \/ IsDict(PropsOf(resp)) /\ ~Has(PropsOf(resp), PeriodsKey)
     \/ IsDict(PropsOf(resp)) /\ Has(PropsOf(resp), PeriodsKey)
          /\ Lookup(PropsOf(resp), PeriodsKey) = List(<<>>)

\* C4: when the forecast response is valid and has zero periods, the result
\* is exactly the no-forecast-periods text.
C4_NoPeriodsText ==
  (Len(answers) = 4 /\ ZeroPeriods(answers[4])) => Done /\ result = Return(NoPeriods)

\* The step-5 points lookup names the place: relativeLocation has a city and
\* a state text.
NameAvailable(resp) ==
  /\ Has(RelPropsOf(resp), CityKey) /\ Lookup(RelPropsOf(resp), CityKey).type = "str"
  /\ Has(RelPropsOf(resp), StateKey) /\ Lookup(RelPropsOf(resp), StateKey).type = "str"

\* C5: on a fully successful pipeline the report is built from the first
\* period of the sequence, with the location line "{city}, {state}" of the
\* points lookup and the geocoder's coordinates.
C5_ReportFromFirstPeriod ==
  (Done /\ Len(answers) = 5 /\ NameAvailable(answers[5]) /\ IsDict(current)) =>
    /\ periods.type = "list" /\ periods.items # <<>>
    /\ result = Return(ReportText(Lookup(RelPropsOf(answers[5]), CityKey).s
                                    \o <<44, 32>>
                                    \o Lookup(RelPropsOf(answers[5]), StateKey).s,
                                  coordinates.items[1], coordinates.items[2],
                                  periods.items[1], Fahrenheit))

\* The first period of a forecast response is a JSON object.
FirstPeriodIsObject(resp) ==
  /\ Has(PropsOf(resp), PeriodsKey)
  /\ Lookup(PropsOf(resp), PeriodsKey).type = "list"
  /\ Lookup(PropsOf(resp), PeriodsKey).items # <<>>
  /\ IsDict(Lookup(PropsOf(resp), PeriodsKey).items[1])

FirstPeriodOf(resp) == Lookup(PropsOf(resp), PeriodsKey).items[1]

\* The step-5 points lookup can be read for a location: it is Absent or
\* empty, or its properties, their relativeLocation and its properties
\* are, where present, JSON objects.
LocationReadable(resp) ==
  \/ Failed(resp)
  \/ resp.status = "ok" /\ ~Truthy(resp.body)
  \/ /\ IsDict(BodyOf(resp))
     /\ Has(BodyOf(resp), PropertiesKey) => IsDict(PropsOf(resp))
     /\ Has(PropsOf(resp), RelativeLocationKey) =>
          /\ IsDict(Lookup(PropsOf(resp), RelativeLocationKey))
          /\ Has(Lookup(PropsOf(resp), RelativeLocationKey), PropertiesKey) =>
               IsDict(RelPropsOf(resp))

\* Formatting took place on a first period that is a JSON object.
Formatted ==
  /\ Done /\ Len(answers) = 5
  /\ FirstPeriodIsObject(answers[4]) /\ LocationReadable(answers[5])

SanFranciscoShown == Text("37.7749, -122.4194")

\* The report is complete and shows these fields: it runs from the
\* location line over the coordinates line to the lines of the fields.
CompleteReport(text, fields) ==
  /\ StartsWith(text, WeatherFor)
  /\ EndsWith(text, CoordinatesLine \o SanFranciscoShown \o fields)

\* C6 (as amended): a report always has every line, each absent field of
\* the first period replaced by its default - "Unknown" for name,
\* temperature, conditions and wind speed, "F" for the temperature unit,
\* empty text for the wind direction, the default sentence for the details -
\* and each present field shown unchanged.
C6_Defaults ==
  Formatted =>
    /\ result.kind = "return"
    /\ CompleteReport(result.text, FieldLines(FirstPeriodOf(answers[4]), Fahrenheit))

\* C6 witness: a report was produced from a first period with no field.
C6_Witness ==
  /\ Formatted /\ FirstPeriodOf(answers[4]) = EmptyDict
  /\ result.kind = "return"

\* C6 as stated: an absent temperature unit is shown as "Unknown".
C6_Original ==
  Formatted =>
    /\ result.kind = "return"
    /\ CompleteReport(result.text, FieldLines(FirstPeriodOf(answers[4]), Unknown))

\* The step-5 points lookup does not name the place: the re-fetch is Absent,
\* or relativeLocation is missing, or it lacks the city or the state.
NameUnavailable(resp) ==
  \/ Failed(resp)
  \/ /\ IsDict(BodyOf(resp)) /\ IsDict(PropsOf(resp))
     /\ \/ ~Has(PropsOf(resp), RelativeLocationKey)
        \/ /\ Has(Lookup(PropsOf(resp), RelativeLocationKey), PropertiesKey)
           /\ IsDict(RelPropsOf(resp))
           /\ (~Has(RelPropsOf(resp), CityKey) \/ ~Has(RelPropsOf(resp), StateKey))

\* C7: in step 5, when the location name is unavailable the report is still
\* produced and its location line is the input place text verbatim.
C7_LocationFallback ==
  (Done /\ Len(answers) = 5 /\ IsDict(current) /\ NameUnavailable(answers[5])) =>
    result = Return(ReportText(city, coordinates.items[1], coordinates.items[2],
                               current, Fahrenheit))

PointsUrlHead == Text("https://api.weather.gov/points/")
ForecastUrlHead == Text("https://api.weather.gov/gridpoints/")

\* The stage a request belongs to, by the service and path of its URL.
Stage(url) ==
  CASE StartsWith(url, GeocodeUrlHead) -> "geocoding"
    [] StartsWith(url, PointsUrlHead) -> "points"
    [] StartsWith(url, ForecastUrlHead) -> "forecast"
    [] OTHER -> "other"

\* The stages of the requests sent so far, in the order they were sent.
Stages == AsSeq([i \in 1..Len(requests) |-> Stage(requests[i])])

StageOrder == <<"geocoding", "geocoding", "points", "forecast", "points">>

\* The grid triple of a points response is complete: gridId, gridX and
\* gridY are present and none is falsy.
CompleteTriple(resp) ==
  /\ IsDict(BodyOf(resp)) /\ IsDict(PropsOf(resp))
  /\ \A k \in {GridIdKey, GridXKey, GridYKey} :
       Has(PropsOf(resp), k) /\ Truthy(Lookup(PropsOf(resp), k))

\* A geocoding answer with no place: the request failed or the list is
\* empty.
NoPlace(resp) == Failed(resp) \/ (resp.status = "ok" /\ resp.body = List(<<>>))

\* C8: the requests of one invocation are sent in the order geocoding,
\* points lookup, forecast, (points re-fetch for the report), each after
\* the answer to the one before it, and the invocation ends at the first
\* failing stage: nothing is sent to the weather service after a geocoding
\* that yields Absent, no forecast request after a failed grid resolution,
\* nothing after a forecast that is Absent or has no periods, and no
\* forecast request before a points lookup succeeded.
C8_StageOrder ==
  /\ IsPrefix(Stages, StageOrder)
  /\ Len(requests) = Len(answers) + (IF pc \in {"idle", "done"} THEN 0 ELSE 1)
  /\ (Answered(1) /\ ~Truthy(url_coordinates)) => Done /\ Len(requests) = 1
  /\ (Answered(2) /\ ~Truthy(coordinates)) => Done /\ Len(requests) = 2
  /\ (Answered(3) /\ ~Truthy(grid_info)) => Done /\ Len(requests) = 3
  /\ (Answered(4) /\ ~Truthy(periods)) => Done /\ Len(requests) = 4
  /\ \A n \in 1..2 :
       (Answered(n) /\ NoPlace(answers[n])) => Done /\ Len(requests) = n
  /\ (Answered(3) /\ (GridUnresolved(answers[3]) \/ ~CompleteTriple(answers[3]))) =>
       Done /\ Len(requests) = 3
  /\ (Answered(4) /\ (Failed(answers[4]) \/ ZeroPeriods(answers[4]))) =>
       Done /\ Len(requests) = 4
  /\ \A i \in 1..Len(requests) :
       Stages[i] = "forecast" =>
         \E j \in 1..(i - 1) :
           Stages[j] = "points" /\ Answered(j) /\ CompleteTriple(answers[j])

\* C8 witness: a forecast with no periods ended the invocation after the
\* fourth request.
C8_Witness ==
  /\ Done /\ Len(answers) = 4 /\ result = Return(NoPeriods)
  /\ Stages = <<"geocoding", "geocoding", "points", "forecast">>

\* The grid values of the points responses above that are no texts, as a
\* URL shows them unchanged.
GridTexts ==
  { <<Num(85), Text("85")>>, <<Num(105), Text("105")>>, <<Num(33), Text("33")>>,
    <<Num(35), Text("35")>>, <<Num(7), Text("7")>>, <<Bool(TRUE), Text("True")>>,
    <<Finite(FALSE, <<8, 5, 5>>, 2), Text("85.5")>>,
    <<List(<<Num(105)>>), Text("[105]")>>,
    <<List(<<Str(<<160>>)>>), Text("['\\xa0']")>> }

GridText(v) ==
  IF v.type = "str" THEN v.s ELSE (CHOOSE p \in GridTexts : p[1] = v)[2]

\* The forecast URL of the grid triple of a points response.
ForecastUrlOf(resp) ==
  ForecastUrlHead \o GridText(Lookup(PropsOf(resp), GridIdKey))
    \o <<47>> \o GridText(Lookup(PropsOf(resp), GridXKey))
    \o <<44>> \o GridText(Lookup(PropsOf(resp), GridYKey))
    \o ForecastPath

\* C9: grid resolution is all-or-nothing.  After the points lookup the
\* triple exists exactly when the response's gridId, gridX and gridY are all
\* present and non-falsy, and is then those three values unchanged, and the
\* forecast request goes to the URL that shows them; with any one missing or
\* falsy the invocation has failed, no forecast URL exists and no forecast
\* request is sent.
C9_AllOrNothing ==
  /\ Answered(3) =>
       IF CompleteTriple(answers[3])
       THEN /\ grid_info = Tuple(<<Lookup(PropsOf(answers[3]), GridIdKey),
                                   Lookup(PropsOf(answers[3]), GridXKey),
                                   Lookup(PropsOf(answers[3]), GridYKey)>>)
            /\ forecast_url = Str(ForecastUrlOf(answers[3]))
            /\ Len(requests) >= 4 /\ requests[4] = ForecastUrlOf(answers[3])
       ELSE /\ Done /\ Len(answers) = 3 /\ Len(requests) = 3
            /\ grid_info = None /\ forecast_url = None
  /\ ~Answered(3) => grid_info = None /\ forecast_url = None /\ Len(requests) <= 3

GridInformationMissingText ==
  Text("Unexpected error in get_weather: extract_grid_info: Grid information is missing")

\* C9 witness: a points response with gridX = 0 beside a gridId and a gridY
\* failed the resolution.
C9_Witness ==
  /\ Done /\ Len(answers) = 3 /\ IsDict(PropsOf(answers[3]))
  /\ Has(PropsOf(answers[3]), GridXKey)
  /\ Lookup(PropsOf(answers[3]), GridXKey) = Num(0)
  /\ Has(PropsOf(answers[3]), GridIdKey) /\ Truthy(Lookup(PropsOf(answers[3]), GridIdKey))
  /\ Has(PropsOf(answers[3]), GridYKey) /\ Truthy(Lookup(PropsOf(answers[3]), GridYKey))
  /\ forecast_url = None /\ Len(requests) = 3
  /\ result = Return(GridInformationMissingText)

\* C10: the coordinates on a report's coordinates line are the geocoder
\* result from which the points URL was derived.
C10_SameCoordinates ==
  Reported =>
    /\ coordinates = url_coordinates
    /\ Str(result.text)
         = FormatReport(LocationDisplay(city, answers[5]),
                        url_coordinates.items[1], url_coordinates.items[2], current)

====
